---- MODULE Spec2Model ----
\* Verification model of the gorkd research-job pipeline (gorkd-core), its
\* in-memory Store and the LLM provider registry (gorkd-llm).
EXTENDS Integers, Sequences, FiniteSets, TLC

\* ------------------------------------------------------------------ bounds
\* Longest result list one search-capability call returns.
MaxResults == 2
\* Largest executor max_sources configuration explored.
MaxSourcesCfg == 2
\* Largest executor min_score configuration explored.
MaxMinScore == 1
\* Largest synthesizer max_context_sources configuration explored.
MaxContextCfg == 2

\* ------------------------------------------------------- program constants
\* The score 1.0 on the model's integer score scale (0 stands for 0.0).
ScoreOne == 2

\* Option<T>: None is the empty sequence, Some(x) the one-element sequence.
None == <<>>
Some(x) == <<x>>

\* --------------------------------------------------------------- job state
JobStatus ==
  {"Pending", "Planning", "Searching", "Fetching", "Synthesizing", "Completed", "Failed"}

is_terminal(status) == status \in {"Completed", "Failed"}

is_active(status) == ~is_terminal(status)

\* ResearchJob::new: a Pending job without error message.
NewJob == [status |-> "Pending", error_message |-> None]

transition_to(job, status) == [job EXCEPT !.status = status]

\* a fail that records the message but leaves the status untouched
fail_keeps_status(job, message) == [job EXCEPT !.error_message = Some(message)]

fail(job, message) == [job EXCEPT !.status = "Failed", !.error_message = Some(message)]

\* ------------------------------------------------------------ error kinds
SearchErrorKinds ==
  {"ProviderUnavailable", "RateLimited", "Timeout", "InvalidQuery", "Network", "Provider"}

LlmErrorKinds ==
  {"ModelUnavailable", "RateLimited", "ContextLengthExceeded", "ContentFiltered",
   "Timeout", "Network", "Provider"}

\* Display text of a SearchError (the #[error] attribute of each variant).
SearchErrorDisplay(kind) ==
  CASE kind = "ProviderUnavailable" -> "provider not available: p"
    [] kind = "RateLimited" -> "rate limited by provider: p"
    [] kind = "Timeout" -> "search timeout after 30s"
    [] kind = "InvalidQuery" -> "invalid query: r"
    [] kind = "Network" -> "network error: n"
    [] kind = "Provider" -> "provider error: e"

\* Display text of an LlmError.
LlmErrorDisplay(kind) ==
  CASE kind = "ModelUnavailable" -> "model not available: m"
    [] kind = "RateLimited" -> "rate limited by provider"
    [] kind = "ContextLengthExceeded" -> "context length exceeded: 8 tokens max, got 9"
    [] kind = "ContentFiltered" -> "content filtered: r"
    [] kind = "Timeout" -> "synthesis timeout after 30s"
    [] kind = "Network" -> "network error: n"
    [] kind = "Provider" -> "provider error: e"

\* Display text of a StoreError.
StoreErrorDisplay(kind) ==
  CASE kind = "JobNotFound" -> "job not found: id"
    [] kind = "Connection" -> "connection failed: c"
    [] kind = "Conflict" -> "conflict: job id already exists"

StoreErrorKinds == {"JobNotFound", "Connection", "Query", "Serialization", "Conflict"}

\* a verdict that leaves Network out of the retryable search kinds
SearchIsRetryableNoNetwork(kind) == kind \in {"ProviderUnavailable", "RateLimited", "Timeout"}

\* `matches!(self, ProviderUnavailable | RateLimited | Timeout | Network)`
SearchIsRetryable(kind) ==
  kind \in {"ProviderUnavailable", "RateLimited", "Timeout", "Network"}

LlmIsRetryable(kind) == kind \in {"ModelUnavailable", "RateLimited", "Timeout", "Network"}

\* `matches!(self, Self::Connection(_))`
StoreIsRetryable(kind) == kind \in {"Connection"}

\* -------------------------------------------------------- search executor
Urls == {"u1", "u2"}
Titles == {"t1", "t2"}
\* Scores a provider may hand back; ScoreOne + 1 is a value above 1.0.
RawScores == 0 .. (ScoreOne + 1)

SearchResults == [url : Urls, title : Titles, score : RawScores]

RECURSIVE SeqsUpTo(_, _)
SeqsUpTo(S, n) ==
  IF n = 0 THEN {<<>>}
  ELSE LET shorter == SeqsUpTo(S, n - 1)
       IN shorter \cup {Append(q, x) : q \in {r \in shorter : Len(r) = n - 1}, x \in S}

ResultLists == SeqsUpTo(SearchResults, MaxResults)

\* f32::clamp(0.0, 1.0) of Source::with_relevance_score.
Clamp(score) == IF score < 0 THEN 0 ELSE IF score > ScoreOne THEN ScoreOne ELSE score

\* SearchResult::into_source.
into_source(result) ==
  [url |-> result.url, title |-> result.title, relevance_score |-> Clamp(result.score)]

\* The result loop of Executor::execute for one query: skip seen URLs, mark
\* the URL seen, skip scores below min_score, convert and push.
RECURSIVE CollectResults(_, _, _, _)
CollectResults(results, all_sources, seen_urls, min_score) ==
  IF results = <<>> THEN [all_sources |-> all_sources, seen_urls |-> seen_urls]
  ELSE LET r == Head(results) IN
    IF r.url \in seen_urls
      THEN CollectResults(Tail(results), all_sources, seen_urls, min_score)
    ELSE IF r.score < min_score
      THEN CollectResults(Tail(results), all_sources, seen_urls \cup {r.url}, min_score)
    ELSE CollectResults(Tail(results), Append(all_sources, into_source(r)),
                        seen_urls \cup {r.url}, min_score)

RECURSIVE InsertByScore(_, _)
InsertByScore(sorted, s) ==
  IF sorted = <<>> THEN <<s>>
  ELSE IF Head(sorted).relevance_score >= s.relevance_score
    THEN <<Head(sorted)>> \o InsertByScore(Tail(sorted), s)
  ELSE <<s>> \o sorted

\* The stable sort_by of Executor::execute, relevance_score descending.
RECURSIVE SortByScoreDesc(_)
SortByScoreDesc(all_sources) ==
  IF all_sources = <<>> THEN <<>>
  ELSE InsertByScore(SortByScoreDesc(SubSeq(all_sources, 1, Len(all_sources) - 1)),
                     all_sources[Len(all_sources)])

\* a truncate that keeps one element more than asked
TruncateOffByOne(seq, n) == SubSeq(seq, 1, IF Len(seq) < n + 1 THEN Len(seq) ELSE n + 1)

\* Vec::truncate, also the iterator take(n).
Truncate(seq, n) == SubSeq(seq, 1, IF Len(seq) < n THEN Len(seq) ELSE n)

\* Executor::execute on the one-query plan Planner::plan builds, given the
\* results the search capability returned for that query.
ExecuteOne(results, cfg) ==
  Truncate(SortByScoreDesc(CollectResults(results, <<>>, {}, cfg.min_score).all_sources),
           cfg.max_sources)

\* ------------------------------------------------------------------ store
JobIds == {"job_1", "job_2"}

\* A Store backend failure injected by the environment, or none.
StoreFaults == {"none", "Connection"}

MapPut(map, key, value) ==
  [k \in (DOMAIN map) \cup {key} |-> IF k = key THEN value ELSE map[k]]

\* a create_job that writes the job whether or not the id is stored
StoreCreateJobOverwrite(store_jobs, id, job, fault) ==
  IF fault # "none" THEN [err |-> Some(fault), jobs |-> store_jobs]
  ELSE [err |-> None, jobs |-> MapPut(store_jobs, id, job)]

\* Store::create_job (MockStore): Conflict when the id is already stored.
StoreCreateJob(store_jobs, id, job, fault) ==
  IF fault # "none" THEN [err |-> Some(fault), jobs |-> store_jobs]
  ELSE IF id \in DOMAIN store_jobs THEN [err |-> Some("Conflict"), jobs |-> store_jobs]
  ELSE [err |-> None, jobs |-> MapPut(store_jobs, id, job)]

\* an update_job that reports success without writing the job
StoreUpdateJobNoWrite(store_jobs, id, job, fault) ==
  IF fault # "none" THEN [err |-> Some(fault), jobs |-> store_jobs]
  ELSE IF id \notin DOMAIN store_jobs THEN [err |-> Some("JobNotFound"), jobs |-> store_jobs]
  ELSE [err |-> None, jobs |-> store_jobs]

\* an update_job that reports JobNotFound and stores the job all the same
StoreUpdateJobUpsert(store_jobs, id, job, fault) ==
  IF fault # "none" THEN [err |-> Some(fault), jobs |-> store_jobs]
  ELSE IF id \notin DOMAIN store_jobs
    THEN [err |-> Some("JobNotFound"), jobs |-> MapPut(store_jobs, id, job)]
  ELSE [err |-> None, jobs |-> MapPut(store_jobs, id, job)]

\* an update_job that writes the job under every stored id
StoreUpdateJobAllIds(store_jobs, id, job, fault) ==
  IF fault # "none" THEN [err |-> Some(fault), jobs |-> store_jobs]
  ELSE IF id \notin DOMAIN store_jobs THEN [err |-> Some("JobNotFound"), jobs |-> store_jobs]
  ELSE [err |-> None, jobs |-> [k \in DOMAIN store_jobs |-> job]]

\* Store::update_job (MockStore): JobNotFound when the id is not stored.
StoreUpdateJob(store_jobs, id, job, fault) ==
  IF fault # "none" THEN [err |-> Some(fault), jobs |-> store_jobs]
  ELSE IF id \notin DOMAIN store_jobs THEN [err |-> Some("JobNotFound"), jobs |-> store_jobs]
  ELSE [err |-> None, jobs |-> MapPut(store_jobs, id, job)]

\* a store_sources that keeps only the first source
StoreStoreSourcesFirstOnly(store_sources, id, srcs, fault) ==
  IF fault # "none" THEN [err |-> Some(fault), sources |-> store_sources]
  ELSE [err |-> None, sources |-> MapPut(store_sources, id, Truncate(srcs, 1))]

\* Store::store_sources (MockStore): replaces the list stored for the id.
StoreStoreSources(store_sources, id, srcs, fault) ==
  IF fault # "none" THEN [err |-> Some(fault), sources |-> store_sources]
  ELSE [err |-> None, sources |-> MapPut(store_sources, id, srcs)]

\* Store::get_job (MockStore): Ok with the stored job, or Ok(None).
StoreGetJob(store_jobs, id) ==
  IF id \in DOMAIN store_jobs THEN Some(store_jobs[id]) ELSE None

\* Store::get_sources (MockStore): unwrap_or_default on a missing id.
StoreGetSources(store_sources, id) ==
  IF id \in DOMAIN store_sources THEN store_sources[id] ELSE <<>>

\* --------------------------------------------------------------- pipeline
VARIABLES
  jobs,            \* Store: job id -> ResearchJob (MockStore.jobs)
  stored_sources,  \* Store: job id -> Vec<Source> (MockStore.sources)
  config,          \* PipelineConfig of the Pipeline
  pc,              \* per job: position of Pipeline::run
  run_job,         \* per job: the `job` local of Pipeline::run
  search_out,      \* per job: what the search capability returned
  run_sources,     \* per job: the `sources` local of Pipeline::run
  llm_context,     \* per job: the source list handed to the LLM capability
  run_answer,      \* per job: the `answer` local of Pipeline::run
  run_result,      \* per job: what Pipeline::run returned
  trace            \* per job: the external calls made so far, in order

pipeVars ==
  <<jobs, stored_sources, config, pc, run_job, search_out, run_sources,
    llm_context, run_answer, run_result, trace>>

Confidence == {"High", "Medium", "Low", "Insufficient"}

\* What one call of the search capability returns.
SearchOutcomes ==
  [ok : {TRUE}, err : {"-"}, results : ResultLists]
    \cup [ok : {FALSE}, err : SearchErrorKinds, results : {<<>>}]

\* What one call of the LLM capability returns.
LlmOutcomes == [ok : {TRUE}, val : Confidence] \cup [ok : {FALSE}, val : LlmErrorKinds]

PipelineConfigs ==
  [max_sources : 0 .. MaxSourcesCfg, min_score : 0 .. MaxMinScore,
   max_context_sources : 1 .. MaxContextCfg]

NoResult == [tag |-> "Running", msg |-> "-"]
ErrResult(tag, msg) == [tag |-> tag, msg |-> msg]
OkResult == [tag |-> "Ok", msg |-> "-"]

Ev(op, status, ok) == [op |-> op, status |-> status, ok |-> ok]

\* The state before any request: empty Store, one Pipeline configuration,
\* and for each submitted job the value ResearchJob::new built.
PipeInit(submitted, configs) ==
  /\ jobs = [k \in {} |-> NewJob]
  /\ stored_sources = [k \in {} |-> <<>>]
  /\ config \in configs
  /\ pc = [j \in JobIds |-> IF j \in submitted THEN "new" ELSE "absent"]
  /\ run_job = [j \in JobIds |-> NewJob]
  /\ search_out = [j \in JobIds |-> None]
  /\ run_sources = [j \in JobIds |-> <<>>]
  /\ llm_context = [j \in JobIds |-> None]
  /\ run_answer = [j \in JobIds |-> None]
  /\ run_result = [j \in JobIds |-> NoResult]
  /\ trace = [j \in JobIds |-> <<>>]

\* The caller persists the freshly built job (Store::create_job) before run.
CreateJob(j, fault) ==
  /\ pc[j] = "new"
  /\ LET res == StoreCreateJob(jobs, j, run_job[j], fault)
     IN /\ jobs' = res.jobs
        /\ trace' = [trace EXCEPT ![j] = Append(@, Ev("create_job", "Pending", res.err = None))]
        /\ pc' = [pc EXCEPT ![j] = "created"]
  /\ UNCHANGED <<stored_sources, config, run_job, search_out, run_sources, llm_context,
                 run_answer, run_result>>

\* `job.transition_to(status); self.store.update_job(&job).await?;`
\* the `?` returns PipelineError::Store when the update fails.
PersistTransition(j, status, fault, next_pc) ==
  LET nj == transition_to(run_job[j], status)
      res == StoreUpdateJob(jobs, j, nj, fault)
  IN /\ run_job' = [run_job EXCEPT ![j] = nj]
     /\ jobs' = res.jobs
     /\ trace' = [trace EXCEPT ![j] = Append(@, Ev("update_job", status, res.err = None))]
     /\ IF res.err = None
          THEN /\ pc' = [pc EXCEPT ![j] = next_pc]
               /\ run_result' = [run_result EXCEPT ![j] =
                                   IF next_pc = "done" THEN OkResult ELSE @]
          ELSE /\ pc' = [pc EXCEPT ![j] = "done"]
               /\ run_result' = [run_result EXCEPT ![j] =
                                   ErrResult("Store", StoreErrorDisplay(res.err[1]))]

\* a run that goes on to plan whatever its first update_job returned
RunPlanningIgnoresError(j, fault) ==
  /\ pc[j] \in {"new", "created"}
  /\ LET nj == transition_to(run_job[j], "Planning")
         res == StoreUpdateJob(jobs, j, nj, fault)
     IN /\ run_job' = [run_job EXCEPT ![j] = nj]
        /\ jobs' = res.jobs
        /\ trace' = [trace EXCEPT ![j] = Append(@, Ev("update_job", "Planning", res.err = None))]
        /\ pc' = [pc EXCEPT ![j] = "planned"]
  /\ UNCHANGED <<stored_sources, config, search_out, run_sources, llm_context, run_answer,
                 run_result>>

\* Pipeline::run, up to the first update_job.
RunPlanning(j, fault) ==
  /\ pc[j] \in {"new", "created"}
  /\ PersistTransition(j, "Planning", fault, "planned")
  /\ UNCHANGED <<stored_sources, config, search_out, run_sources, llm_context, run_answer>>

\* Planner::plan, then the Searching transition and its update_job.
RunSearching(j, fault) ==
  /\ pc[j] = "planned"
  /\ PersistTransition(j, "Searching", fault, "search_call")
  /\ UNCHANGED <<stored_sources, config, search_out, run_sources, llm_context, run_answer>>

\* Executor::execute sends the plan's query to the search capability.
SearchInvoke(j) ==
  /\ pc[j] = "search_call"
  /\ pc' = [pc EXCEPT ![j] = "search_wait"]
  /\ trace' = [trace EXCEPT ![j] = Append(@, Ev("search", "-", TRUE))]
  /\ UNCHANGED <<jobs, stored_sources, config, run_job, search_out, run_sources, llm_context,
                 run_answer, run_result>>

\* The search capability answers with `out`; on an error `map_err(..)?`
\* returns PipelineError::Search at once, otherwise execute yields the sources.
SearchAnswered(j, out) ==
  /\ trace' = [trace EXCEPT ![j] = Append(@, Ev("search_ret", out.err, out.ok))]
  /\ search_out' = [search_out EXCEPT ![j] = Some(out)]
  /\ IF out.ok
       THEN /\ run_sources' = [run_sources EXCEPT ![j] = ExecuteOne(out.results, config)]
            /\ pc' = [pc EXCEPT ![j] = "searched"]
            /\ UNCHANGED run_result
       ELSE /\ pc' = [pc EXCEPT ![j] = "done"]
            /\ run_result' = [run_result EXCEPT ![j] =
                                ErrResult("Search", SearchErrorDisplay(out.err))]
            /\ UNCHANGED run_sources
  /\ UNCHANGED <<jobs, stored_sources, config, run_job, llm_context, run_answer>>

\* Executor::execute resumes when the search capability answers.
SearchReturn(j) ==
  /\ pc[j] = "search_wait"
  /\ \E out \in SearchOutcomes : SearchAnswered(j, out)

\* a no-sources branch that returns NoSources without persisting the failure
RunNoSourcesNoPersist(j, fault) ==
  /\ pc[j] = "searched"
  /\ run_sources[j] = <<>>
  /\ run_job' = [run_job EXCEPT ![j] = fail(@, "No sources found for query")]
  /\ pc' = [pc EXCEPT ![j] = "done"]
  /\ run_result' = [run_result EXCEPT ![j] = ErrResult("NoSources", "no sources found for query")]
  /\ UNCHANGED <<jobs, trace, stored_sources, config, search_out, run_sources, llm_context, run_answer>>

\* a no-sources branch that ignores the outcome of update_job
RunNoSourcesSwallow(j, fault) ==
  /\ pc[j] = "searched"
  /\ run_sources[j] = <<>>
  /\ LET nj == fail(run_job[j], "No sources found for query")
         res == StoreUpdateJob(jobs, j, nj, fault)
     IN /\ run_job' = [run_job EXCEPT ![j] = nj]
        /\ jobs' = res.jobs
        /\ trace' = [trace EXCEPT ![j] = Append(@, Ev("update_job", nj.status, res.err = None))]
        /\ pc' = [pc EXCEPT ![j] = "done"]
        /\ run_result' = [run_result EXCEPT ![j] =
                            ErrResult("NoSources", "no sources found for query")]
  /\ UNCHANGED <<stored_sources, config, search_out, run_sources, llm_context, run_answer>>

\* `if sources.is_empty() { job.fail(..); update_job(&job).await?; return Err(NoSources) }`
RunNoSources(j, fault) ==
  /\ pc[j] = "searched"
  /\ run_sources[j] = <<>>
  /\ LET nj == fail(run_job[j], "No sources found for query")
         res == StoreUpdateJob(jobs, j, nj, fault)
     IN /\ run_job' = [run_job EXCEPT ![j] = nj]
        /\ jobs' = res.jobs
        /\ trace' = [trace EXCEPT ![j] = Append(@, Ev("update_job", nj.status, res.err = None))]
        /\ pc' = [pc EXCEPT ![j] = "done"]
        /\ run_result' = [run_result EXCEPT ![j] =
                            IF res.err = None
                              THEN ErrResult("NoSources", "no sources found for query")
                              ELSE ErrResult("Store", StoreErrorDisplay(res.err[1]))]
  /\ UNCHANGED <<stored_sources, config, search_out, run_sources, llm_context, run_answer>>

\* `self.store.store_sources(&job.id, &sources).await?;`
RunStoreSources(j, fault) ==
  /\ pc[j] = "searched"
  /\ run_sources[j] # <<>>
  /\ LET res == StoreStoreSources(stored_sources, j, run_sources[j], fault)
     IN /\ stored_sources' = res.sources
        /\ trace' = [trace EXCEPT ![j] = Append(@, Ev("store_sources", "-", res.err = None))]
        /\ IF res.err = None
             THEN pc' = [pc EXCEPT ![j] = "stored"] /\ UNCHANGED run_result
             ELSE /\ pc' = [pc EXCEPT ![j] = "done"]
                  /\ run_result' = [run_result EXCEPT ![j] =
                                      ErrResult("Store", StoreErrorDisplay(res.err[1]))]
  /\ UNCHANGED <<jobs, config, run_job, search_out, run_sources, llm_context, run_answer>>

\* The Synthesizing transition and its update_job.
RunSynthesizing(j, fault) ==
  /\ pc[j] = "stored"
  /\ PersistTransition(j, "Synthesizing", fault, "llm_call")
  /\ UNCHANGED <<stored_sources, config, search_out, run_sources, llm_context, run_answer>>

\* Synthesizer::synthesize: take(max_context_sources), then the LLM call.
LlmInvoke(j) ==
  /\ pc[j] = "llm_call"
  /\ llm_context' = [llm_context EXCEPT ![j] =
                       Some(Truncate(run_sources[j], config.max_context_sources))]
  /\ pc' = [pc EXCEPT ![j] = "llm_wait"]
  /\ trace' = [trace EXCEPT ![j] = Append(@, Ev("synthesize", "-", TRUE))]
  /\ UNCHANGED <<jobs, stored_sources, config, run_job, search_out, run_sources, run_answer, run_result>>

\* a synthesis that is attempted once more after an error
LlmAnsweredRetries(j, out) ==
  /\ trace' = [trace EXCEPT ![j] =
                 Append(@, Ev("synthesize_ret", IF out.ok THEN "-" ELSE out.val, out.ok))]
  /\ IF out.ok
       THEN /\ run_answer' = [run_answer EXCEPT ![j] = Some([confidence |-> out.val])]
            /\ pc' = [pc EXCEPT ![j] = "synthesized"]
            /\ UNCHANGED run_result
       ELSE IF Len(SelectSeq(trace[j], LAMBDA e : e.op = "synthesize")) < 2
         THEN /\ pc' = [pc EXCEPT ![j] = "llm_call"]
              /\ UNCHANGED <<run_result, run_answer>>
       ELSE /\ pc' = [pc EXCEPT ![j] = "done"]
            /\ run_result' = [run_result EXCEPT ![j] =
                                ErrResult("Synthesis", LlmErrorDisplay(out.val))]
            /\ UNCHANGED run_answer
  /\ UNCHANGED <<jobs, stored_sources, config, run_job, search_out, run_sources, llm_context>>

\* The LLM capability answers with `out`; on an error `map_err(..)?` returns
\* PipelineError::Synthesis at once.
LlmAnswered(j, out) ==
  /\ trace' = [trace EXCEPT ![j] =
                 Append(@, Ev("synthesize_ret", IF out.ok THEN "-" ELSE out.val, out.ok))]
  /\ IF out.ok
       THEN /\ run_answer' = [run_answer EXCEPT ![j] = Some([confidence |-> out.val])]
            /\ pc' = [pc EXCEPT ![j] = "synthesized"]
            /\ UNCHANGED run_result
       ELSE /\ pc' = [pc EXCEPT ![j] = "done"]
            /\ run_result' = [run_result EXCEPT ![j] =
                                ErrResult("Synthesis", LlmErrorDisplay(out.val))]
            /\ UNCHANGED run_answer
  /\ UNCHANGED <<jobs, stored_sources, config, run_job, search_out, run_sources, llm_context>>

\* Synthesizer::synthesize resumes when the LLM capability answers.
LlmReturn(j) ==
  /\ pc[j] = "llm_wait"
  /\ \E out \in LlmOutcomes : LlmAnswered(j, out)

\* The Completed transition, its update_job, and `Ok(PipelineResult {..})`.
RunCompleted(j, fault) ==
  /\ pc[j] = "synthesized"
  /\ PersistTransition(j, "Completed", fault, "done")
  /\ UNCHANGED <<stored_sources, config, search_out, run_sources, llm_context, run_answer>>

\* ----------------------------------------------------------- LLM registry
VARIABLES
  providers,       \* LlmRegistry.providers: key -> provider handle
  default_model,   \* LlmRegistry.default_model: Option<String>
  fallback_model,  \* LlmRegistry.fallback_model: Option<String>
  reg_pc,          \* position of the synthesize_with_fallback call
  call_model,      \* the model_id argument of the call
  primary,         \* the provider the call resolved as primary
  primary_out,     \* what the primary returned
  invoked,         \* providers whose synthesize was invoked by the call, in order
  fallback_out,    \* what the fallback returned
  reg_result       \* what synthesize_with_fallback returned

llmVars ==
  <<providers, default_model, fallback_model, reg_pc, call_model, primary,
    primary_out, invoked, fallback_out, reg_result>>


\* Keys used with register / set_default / set_fallback / model_id.
ModelKeys == {"m1", "m2"}

\* Provider handles; two of them report the same model_id().
LlmProviders == {"pA", "pB", "pC"}

\* LlmProvider::model_id of each handle.
ProviderModelId(p) == IF p = "pB" THEN "m2" ELSE "m1"

\* LlmRegistry::get.
RegistryGet(provs, model_id) ==
  IF model_id \in DOMAIN provs THEN Some(provs[model_id]) ELSE None

\* Option::and_then(|id| self.get(id)) of LlmRegistry::default / fallback.
RegistryLookup(provs, key_opt) ==
  IF key_opt = None THEN None ELSE RegistryGet(provs, key_opt[1])

NoOutcome == [ok |-> FALSE, val |-> "-"]
NoRegResult == [tag |-> "None", val |-> "-", by |-> "-"]

\* The result a provider's outcome turns into.
RegResultOf(out, p) == [tag |-> IF out.ok THEN "Ok" ELSE "Err", val |-> out.val, by |-> p]

LlmInit ==
  /\ providers = [k \in {} |-> "pA"]
  /\ default_model = None
  /\ fallback_model = None
  /\ reg_pc = "idle"
  /\ call_model = None
  /\ primary = None
  /\ primary_out = NoOutcome
  /\ invoked = <<>>
  /\ fallback_out = NoOutcome
  /\ reg_result = NoRegResult

\* The registry is borrowed for the whole call: it changes only between calls.
NoCallInFlight == reg_pc \in {"idle", "returned"}

\* a register that makes the model registered last the default
RegisterLastIsDefault(model_id, provider) ==
  /\ NoCallInFlight
  /\ default_model' = Some(model_id)
  /\ providers' = MapPut(providers, model_id, provider)
  /\ reg_pc' = "idle"
  /\ UNCHANGED <<fallback_model, call_model, primary, primary_out, invoked,
                 fallback_out, reg_result>>

\* LlmRegistry::register (LlmRegistryBuilder::register is the same code).
Register(model_id, provider) ==
  /\ NoCallInFlight
  /\ default_model' = IF default_model = None THEN Some(model_id) ELSE default_model
  /\ providers' = MapPut(providers, model_id, provider)
  /\ reg_pc' = "idle"
  /\ UNCHANGED <<fallback_model, call_model, primary, primary_out, invoked,
                 fallback_out, reg_result>>

\* LlmRegistry::set_default (LlmRegistryBuilder::default_model).
SetDefault(model_id) ==
  /\ NoCallInFlight
  /\ default_model' = Some(model_id)
  /\ reg_pc' = "idle"
  /\ UNCHANGED <<providers, fallback_model, call_model, primary, primary_out, invoked,
                 fallback_out, reg_result>>

\* LlmRegistry::set_fallback (LlmRegistryBuilder::fallback_model).
SetFallback(model_id) ==
  /\ NoCallInFlight
  /\ fallback_model' = Some(model_id)
  /\ reg_pc' = "idle"
  /\ UNCHANGED <<providers, default_model, call_model, primary, primary_out, invoked,
                 fallback_out, reg_result>>

\* a resolution that turns to the default when the requested id is unknown
ResolvePrimaryOrDefault(provs, dflt, model_id) ==
  IF model_id # None /\ RegistryGet(provs, model_id[1]) # None
    THEN RegistryGet(provs, model_id[1])
    ELSE RegistryLookup(provs, dflt)

\* The `let primary = match model_id {..}` of synthesize_with_fallback.
ResolvePrimary(provs, dflt, model_id) ==
  IF model_id # None THEN RegistryGet(provs, model_id[1]) ELSE RegistryLookup(provs, dflt)

\* synthesize_with_fallback up to the await on primary.synthesize; an
\* unresolved primary returns ModelUnavailable at once.
CallStart(model_id) ==
  /\ NoCallInFlight
  /\ LET p == ResolvePrimary(providers, default_model, model_id)
     IN /\ call_model' = model_id
        /\ primary' = p
        /\ primary_out' = NoOutcome
        /\ fallback_out' = NoOutcome
        /\ IF p = None
             THEN /\ reg_pc' = "returned"
                  /\ invoked' = <<>>
                  /\ reg_result' = [tag |-> "Err", val |-> "ModelUnavailable", by |-> "-"]
             ELSE /\ reg_pc' = "primary_wait"
                  /\ invoked' = <<p[1]>>
                  /\ reg_result' = NoRegResult
  /\ UNCHANGED <<providers, default_model, fallback_model>>

\* a fallback test on registry keys instead of the providers' model ids
UseFallbackByKey(err_kind, fb, primary_provider) ==
  /\ LlmIsRetryable(err_kind)
  /\ fb # None
  /\ fallback_model # default_model

\* a fallback test that ignores the retryability of the error
UseFallbackAlways(err_kind, fb, primary_provider) ==
  /\ fb # None
  /\ ProviderModelId(fb[1]) # ProviderModelId(primary_provider)

\* a fallback test that does not compare the fallback with the primary
UseFallbackSame(err_kind, fb, primary_provider) ==
  /\ LlmIsRetryable(err_kind)
  /\ fb # None

\* The guards of the Err arm: retryable, a fallback resolves, and its
\* model_id() differs from the primary's.
UseFallback(err_kind, fb, primary_provider) ==
  /\ LlmIsRetryable(err_kind)
  /\ fb # None
  /\ ProviderModelId(fb[1]) # ProviderModelId(primary_provider)

\* primary.synthesize returned `out`: Ok is returned, a retryable error with
\* a usable fallback invokes the fallback, any other error is returned.
PrimaryAnswered(out) ==
  /\ primary_out' = out
  /\ LET fb == RegistryLookup(providers, fallback_model)
     IN IF out.ok
          THEN /\ reg_result' = RegResultOf(out, primary[1])
               /\ reg_pc' = "returned"
               /\ UNCHANGED invoked
          ELSE IF UseFallback(out.val, fb, primary[1])
            THEN /\ invoked' = Append(invoked, fb[1])
                 /\ reg_pc' = "fallback_wait"
                 /\ UNCHANGED reg_result
            ELSE /\ reg_result' = RegResultOf(out, primary[1])
                 /\ reg_pc' = "returned"
                 /\ UNCHANGED invoked
  /\ UNCHANGED <<providers, default_model, fallback_model, call_model, primary, fallback_out>>

\* synthesize_with_fallback resumes when the primary answers.
PrimaryReturn ==
  /\ reg_pc = "primary_wait"
  /\ \E out \in LlmOutcomes : PrimaryAnswered(out)

\* a fallback arm that hands back the primary's error when the fallback fails
FallbackReturnKeepsPrimaryError ==
  /\ reg_pc = "fallback_wait"
  /\ \E out \in LlmOutcomes :
       /\ fallback_out' = out
       /\ reg_result' = IF out.ok THEN RegResultOf(out, invoked[Len(invoked)])
                                  ELSE RegResultOf(primary_out, primary[1])
  /\ reg_pc' = "returned"
  /\ UNCHANGED <<providers, default_model, fallback_model, call_model, primary,
                 primary_out, invoked>>

\* `return fallback.synthesize(query, sources).await;`
FallbackReturn ==
  /\ reg_pc = "fallback_wait"
  /\ \E out \in LlmOutcomes :
       /\ fallback_out' = out
       /\ reg_result' = RegResultOf(out, invoked[Len(invoked)])
  /\ reg_pc' = "returned"
  /\ UNCHANGED <<providers, default_model, fallback_model, call_model, primary,
                 primary_out, invoked>>

\* ------------------------------------------------ fallback search provider
MaxProviders == 3

VARIABLES
  fs_providers,    \* FallbackSearchProvider.providers, in priority order
  fs_pc,           \* position of the search call: idle / wait / returned
  fs_idx,          \* index of the provider of the current loop iteration
  fs_last_error,   \* last_error
  fs_invoked,      \* provider handles whose search was invoked, in order
  fs_outs,         \* what each invocation returned, in order
  fs_result        \* what FallbackSearchProvider::search returned

fsVars ==
  <<fs_providers, fs_pc, fs_idx, fs_last_error, fs_invoked, fs_outs, fs_result>>

\* Handles of the providers a list is built from.
SearchProviderIds == {"sA", "sB"}

ProviderLists == SeqsUpTo(SearchProviderIds, MaxProviders)

\* A SearchError value: its variant and the provider string it carries.
SearchErr(kind, provider) == [kind |-> kind, provider |-> provider]

\* What one provider of the list returns from search.
FsOutcomes ==
  [ok : {TRUE}, err : {SearchErr("-", "-")},
   results : {<<>>} \cup {<<r>> : r \in SearchResults}]
    \cup [ok : {FALSE}, err : {SearchErr(k, "p") : k \in SearchErrorKinds},
          results : {<<>>}]

FsNoResult == [tag |-> "Running", err |-> SearchErr("-", "-"), results |-> <<>>]
FsOk(results) == [tag |-> "Ok", err |-> SearchErr("-", "-"), results |-> results]
FsErr(e) == [tag |-> "Err", err |-> e, results |-> <<>>]

\* FallbackSearchProvider::new(providers), nothing called yet.
FsInit(lists) ==
  /\ fs_providers \in lists
  /\ fs_pc = "idle"
  /\ fs_idx = 0
  /\ fs_last_error = None
  /\ fs_invoked = <<>>
  /\ fs_outs = <<>>
  /\ fs_result = FsNoResult

\* search up to the first await: the empty-list return, or the first
\* iteration's `provider.search(query)`.
FsSearch ==
  /\ fs_pc = "idle"
  /\ IF fs_providers = <<>>
       THEN /\ fs_result' = FsErr(SearchErr("ProviderUnavailable", "none"))
            /\ fs_pc' = "returned"
            /\ UNCHANGED <<fs_idx, fs_last_error, fs_invoked>>
       ELSE /\ fs_last_error' = None
            /\ fs_idx' = 1
            /\ fs_invoked' = <<fs_providers[1]>>
            /\ fs_pc' = "wait"
            /\ UNCHANGED fs_result
  /\ UNCHANGED <<fs_providers, fs_outs>>

\* a loop that keeps walking the list after a provider succeeded
FsAnsweredContinuesOnOk(out) ==
  /\ fs_outs' = Append(fs_outs, out)
  /\ IF fs_idx < Len(fs_providers) /\ (out.ok \/ SearchIsRetryable(out.err.kind))
       THEN /\ fs_idx' = fs_idx + 1
            /\ fs_invoked' = Append(fs_invoked, fs_providers[fs_idx + 1])
            /\ fs_last_error' = IF out.ok THEN fs_last_error ELSE Some(out.err)
            /\ UNCHANGED <<fs_pc, fs_result>>
       ELSE /\ fs_result' = IF out.ok THEN FsOk(out.results) ELSE FsErr(out.err)
            /\ fs_pc' = "returned"
            /\ UNCHANGED <<fs_idx, fs_invoked, fs_last_error>>
  /\ UNCHANGED fs_providers

\* a loop that remembers the first retryable error instead of the last
FsAnsweredFirstError(out) ==
  /\ fs_outs' = Append(fs_outs, out)
  /\ IF out.ok
       THEN /\ fs_result' = FsOk(out.results)
            /\ fs_pc' = "returned"
            /\ UNCHANGED <<fs_idx, fs_last_error, fs_invoked>>
       ELSE IF SearchIsRetryable(out.err.kind)
         THEN /\ fs_last_error' =
                   IF fs_last_error = None THEN Some(out.err) ELSE fs_last_error
              /\ IF fs_idx < Len(fs_providers)
                   THEN /\ fs_idx' = fs_idx + 1
                        /\ fs_invoked' = Append(fs_invoked, fs_providers[fs_idx + 1])
                        /\ UNCHANGED <<fs_pc, fs_result>>
                   ELSE /\ fs_result' = FsErr(fs_last_error'[1])
                        /\ fs_pc' = "returned"
                        /\ UNCHANGED <<fs_idx, fs_invoked>>
         ELSE /\ fs_result' = FsErr(out.err)
              /\ fs_pc' = "returned"
              /\ UNCHANGED <<fs_idx, fs_last_error, fs_invoked>>
  /\ UNCHANGED fs_providers

\* a loop that continues past every error, retryable or not
FsAnsweredContinuesOnAny(out) ==
  /\ fs_outs' = Append(fs_outs, out)
  /\ IF out.ok
       THEN /\ fs_result' = FsOk(out.results)
            /\ fs_pc' = "returned"
            /\ UNCHANGED <<fs_idx, fs_last_error, fs_invoked>>
       ELSE /\ fs_last_error' = Some(out.err)
            /\ IF fs_idx < Len(fs_providers)
                 THEN /\ fs_idx' = fs_idx + 1
                      /\ fs_invoked' = Append(fs_invoked, fs_providers[fs_idx + 1])
                      /\ UNCHANGED <<fs_pc, fs_result>>
                 ELSE /\ fs_result' = FsErr(out.err)
                      /\ fs_pc' = "returned"
                      /\ UNCHANGED <<fs_idx, fs_invoked>>
  /\ UNCHANGED fs_providers

\* The match on `provider.search(query).await` in iteration fs_idx, then
\* either the return, the next iteration's call, or the code after the loop.
FsAnswered(out) ==
  /\ fs_outs' = Append(fs_outs, out)
  /\ IF out.ok
       THEN /\ fs_result' = FsOk(out.results)
            /\ fs_pc' = "returned"
            /\ UNCHANGED <<fs_idx, fs_last_error, fs_invoked>>
       ELSE IF SearchIsRetryable(out.err.kind)
         THEN /\ fs_last_error' = Some(out.err)
              /\ IF fs_idx < Len(fs_providers)
                   THEN /\ fs_idx' = fs_idx + 1
                        /\ fs_invoked' = Append(fs_invoked, fs_providers[fs_idx + 1])
                        /\ UNCHANGED <<fs_pc, fs_result>>
                   ELSE /\ fs_result' =
                             FsErr(IF fs_last_error' = None
                                     THEN SearchErr("ProviderUnavailable", "all")
                                     ELSE fs_last_error'[1])
                        /\ fs_pc' = "returned"
                        /\ UNCHANGED <<fs_idx, fs_invoked>>
         ELSE /\ fs_result' = FsErr(out.err)
              /\ fs_pc' = "returned"
              /\ UNCHANGED <<fs_idx, fs_last_error, fs_invoked>>
  /\ UNCHANGED fs_providers

FsReturn ==
  /\ fs_pc = "wait"
  /\ \E out \in FsOutcomes : FsAnswered(out)

\* ------------------------------------------------------ error classification
VARIABLES
  classified       \* the last error handed to is_retryable, with the verdict

clsVars == <<classified>>

ErrorClasses == {"search", "llm", "store"}

KindsOf(class) ==
  CASE class = "search" -> SearchErrorKinds
    [] class = "llm" -> LlmErrorKinds
    [] class = "store" -> StoreErrorKinds

\* `err.is_retryable()` on an error of the given type.
IsRetryable(class, kind) ==
  CASE class = "search" -> SearchIsRetryable(kind)
    [] class = "llm" -> LlmIsRetryable(kind)
    [] class = "store" -> StoreIsRetryable(kind)

ClsInit == classified = None

Classify(class, kind) ==
  classified' = Some([class |-> class, kind |-> kind,
                      retryable |-> IsRetryable(class, kind)])

\* The provider table after register("m1", pA) and register("m2", pB).
TwoModels == MapPut(MapPut([k \in {} |-> "pA"], "m1", "pA"), "m2", "pB")

\* A registry built with two models of different ids, the first one the
\* default and the second one the fallback; `prim` is the provider a caller
\* already took from it.
LlmInitBuilt(prim) ==
  /\ providers = TwoModels
  /\ default_model = Some("m1")
  /\ fallback_model = Some("m2")
  /\ reg_pc = "idle"
  /\ call_model = None
  /\ primary = prim
  /\ primary_out = NoOutcome
  /\ invoked = <<>>
  /\ fallback_out = NoOutcome
  /\ reg_result = NoRegResult

LlmInitTwoModels == LlmInitBuilt(None)

\* ------------------------------------------------- pipeline built by AppState
\* AppState::pipeline hands `llm_registry.default()` to Pipeline::new, so the
\* Synthesizer's `self.provider.synthesize(..)` is a call on that provider.
AppLlmInvoke(j) ==
  /\ LlmInvoke(j)
  /\ invoked' = Append(invoked, primary[1])
  /\ UNCHANGED <<providers, default_model, fallback_model, reg_pc, call_model, primary,
                 primary_out, fallback_out, reg_result>>

\* The provider answers; Synthesizer::synthesize returns the answer as it is.
AppLlmReturn(j) ==
  /\ pc[j] = "llm_wait"
  /\ \E out \in LlmOutcomes :
       /\ LlmAnswered(j, out)
       /\ primary_out' = out
  /\ UNCHANGED <<providers, default_model, fallback_model, reg_pc, call_model, primary,
                 invoked, fallback_out, reg_result>>

\* ------------------------------------------------------- ResearchJob object
MaxCalls == 3

VARIABLES
  rj,              \* a ResearchJob: its status and error_message
  rj_intent,       \* its intent: Option<QueryIntent>
  rj_updates       \* how often updated_at was set after ResearchJob::new

jobVars == <<rj, rj_intent, rj_updates>>

\* QueryIntent::new(question_type) for some question types.
QueryIntents == {"Factual", "Comparison", "HowTo"}
Messages == {"e1", "e2"}

\* ResearchJob::new(query) on a valid query.
JobInit ==
  /\ rj = NewJob
  /\ rj_intent = None
  /\ rj_updates = 0

\* job.transition_to(status)
JobTransitionTo(status) ==
  /\ rj_updates < MaxCalls
  /\ rj' = transition_to(rj, status)
  /\ rj_updates' = rj_updates + 1
  /\ UNCHANGED rj_intent

\* job.fail(message)
JobFail(message) ==
  /\ rj_updates < MaxCalls
  /\ rj' = fail(rj, message)
  /\ rj_updates' = rj_updates + 1
  /\ UNCHANGED rj_intent

\* job.with_intent(intent)
JobWithIntent(intent) ==
  /\ rj_updates < MaxCalls
  /\ rj_intent' = Some(intent)
  /\ rj_updates' = rj_updates + 1
  /\ UNCHANGED rj

JobNext ==
  \/ \E status \in JobStatus : JobTransitionTo(status)
  \/ \E message \in Messages : JobFail(message)
  \/ \E intent \in QueryIntents : JobWithIntent(intent)

\* ------------------------------------------------- executor over a whole plan
MaxQueries == 3

VARIABLES
  ex_plan_len,     \* plan.queries.len()
  ex_pc,           \* position of execute: idle / search_wait / loop / returned
  ex_q,            \* index of the query of the current outer iteration
  ex_sent,         \* indexes of the queries handed to provider.search, in order
  ex_left,         \* results of the current response not yet iterated
  ex_all_sources,  \* all_sources
  ex_seen_urls,    \* seen_urls
  ex_result,       \* what execute returned
  ex_failed,       \* history: the query whose search failed, and the error kind
  ex_first_seen,   \* history: URL -> the first result seen with it, and its query
  ex_dup_urls,     \* history: URLs that came again, changed, in a later query
  ex_late_passing, \* history: URLs first seen below min_score that came again at or above it
  ex_survivors     \* history: all_sources as it was before sort and truncate

exVars ==
  <<ex_plan_len, ex_pc, ex_q, ex_sent, ex_left, ex_all_sources, ex_seen_urls,
    ex_result, ex_failed, ex_first_seen, ex_dup_urls, ex_late_passing, ex_survivors>>

\* Executor configurations; the synthesizer's part of the config plays no role.
ExecConfigs == {c \in PipelineConfigs : c.max_context_sources = 1}

ExNoResult == [tag |-> "Running", err |-> "-", sources |-> <<>>]

\* Executor::new and a plan, execute not yet called.
ExecInit(plan_lens) ==
  /\ ex_plan_len \in plan_lens
  /\ ex_pc = "idle"
  /\ ex_q = 0
  /\ ex_sent = <<>>
  /\ ex_left = 0
  /\ ex_all_sources = <<>>
  /\ ex_seen_urls = {}
  /\ ex_result = ExNoResult
  /\ ex_failed = None
  /\ ex_first_seen = [u \in {} |-> 0]
  /\ ex_dup_urls = {}
  /\ ex_late_passing = {}
  /\ ex_survivors = <<>>

\* The code after the outer loop: sort_by, truncate, Ok(all_sources).
ExecFinish ==
  /\ ex_survivors' = ex_all_sources
  /\ ex_all_sources' = Truncate(SortByScoreDesc(ex_all_sources), config.max_sources)
  /\ ex_result' = [tag |-> "Ok", err |-> "-", sources |-> ex_all_sources']
  /\ ex_pc' = "returned"
  /\ UNCHANGED <<ex_q, ex_sent>>

\* The next outer iteration's `self.provider.search(query)`, or the code
\* after the loop when the plan has no further query.
ExecNextQuery ==
  IF ex_q < ex_plan_len
    THEN /\ ex_q' = ex_q + 1
         /\ ex_sent' = Append(ex_sent, ex_q + 1)
         /\ ex_pc' = "search_wait"
         /\ UNCHANGED <<ex_all_sources, ex_result, ex_survivors>>
    ELSE ExecFinish

\* execute up to its first await.
ExecStart ==
  /\ ex_pc = "idle"
  /\ ExecNextQuery
  /\ UNCHANGED <<ex_plan_len, ex_left, ex_seen_urls, ex_failed, ex_first_seen, ex_dup_urls, ex_late_passing>>

\* an executor that takes a failed search for an empty response and goes on
ExecSearchFailedSkips(kind) ==
  /\ ex_failed' = Some([q |-> ex_q, kind |-> kind])
  /\ ex_left' = 0
  /\ ex_pc' = "loop"
  /\ UNCHANGED <<ex_plan_len, ex_q, ex_sent, ex_all_sources, ex_seen_urls, ex_result,
                 ex_first_seen, ex_dup_urls, ex_late_passing, ex_survivors>>

\* `.await?` on an Err: execute returns the error, all_sources is dropped.
ExecSearchFailed(kind) ==
  /\ ex_failed' = Some([q |-> ex_q, kind |-> kind])
  /\ ex_result' = [tag |-> "Err", err |-> kind, sources |-> <<>>]
  /\ ex_pc' = "returned"
  /\ UNCHANGED <<ex_plan_len, ex_q, ex_sent, ex_left, ex_all_sources, ex_seen_urls,
                 ex_first_seen, ex_dup_urls, ex_late_passing, ex_survivors>>

\* `.await?` on an Ok with n results; their content is drawn as the inner
\* loop reaches them, one iteration at a time.
ExecSearchOk(n) ==
  /\ ex_left' = n
  /\ ex_pc' = "loop"
  /\ UNCHANGED <<ex_plan_len, ex_q, ex_sent, ex_all_sources, ex_seen_urls, ex_result,
                 ex_failed, ex_first_seen, ex_dup_urls, ex_late_passing, ex_survivors>>

ExecSearchReturn ==
  /\ ex_pc = "search_wait"
  /\ \/ \E kind \in SearchErrorKinds : ExecSearchFailed(kind)
     \/ \E n \in 0 .. MaxResults : ExecSearchOk(n)

\* The history kept beside an inner iteration on `result`.
ExecRecord(result) ==
  /\ ex_first_seen' =
       IF result.url \in DOMAIN ex_first_seen THEN ex_first_seen
       ELSE MapPut(ex_first_seen, result.url, [result |-> result, q |-> ex_q])
  /\ ex_dup_urls' =
       IF /\ result.url \in DOMAIN ex_first_seen
          /\ ex_first_seen[result.url].q < ex_q
          /\ ex_first_seen[result.url].result.title # result.title
          /\ ex_first_seen[result.url].result.score < result.score
         THEN ex_dup_urls \cup {result.url}
         ELSE ex_dup_urls
  /\ ex_late_passing' =
       IF /\ result.url \in DOMAIN ex_first_seen
          /\ ex_first_seen[result.url].result.score < config.min_score
          /\ result.score >= config.min_score
         THEN ex_late_passing \cup {result.url}
         ELSE ex_late_passing

\* an inner iteration that also drops a result scoring exactly min_score
ExecLoopResultStrictMin(result) ==
  /\ ex_pc = "loop"
  /\ ex_left > 0
  /\ ex_all_sources' =
       IF result.url \in ex_seen_urls \/ result.score <= config.min_score
         THEN ex_all_sources
         ELSE Append(ex_all_sources, into_source(result))
  /\ ex_seen_urls' = ex_seen_urls \cup {result.url}
  /\ ex_left' = ex_left - 1
  /\ ExecRecord(result)
  /\ UNCHANGED <<ex_plan_len, ex_pc, ex_q, ex_sent, ex_result, ex_failed, ex_survivors>>

\* an inner iteration without the seen_urls test
ExecLoopResultNoDedup(result) ==
  /\ ex_pc = "loop"
  /\ ex_left > 0
  /\ ex_all_sources' =
       IF result.score < config.min_score THEN ex_all_sources
       ELSE Append(ex_all_sources, into_source(result))
  /\ ex_seen_urls' = ex_seen_urls \cup {result.url}
  /\ ex_left' = ex_left - 1
  /\ ExecRecord(result)
  /\ UNCHANGED <<ex_plan_len, ex_pc, ex_q, ex_sent, ex_result, ex_failed, ex_survivors>>

\* an inner iteration that tests the score before the seen_urls test
ExecLoopResultFilterFirst(result) ==
  /\ ex_pc = "loop"
  /\ ex_left > 0
  /\ IF result.score < config.min_score
       THEN UNCHANGED <<ex_all_sources, ex_seen_urls>>
       ELSE /\ ex_all_sources' =
                 IF result.url \in ex_seen_urls THEN ex_all_sources
                 ELSE Append(ex_all_sources, into_source(result))
            /\ ex_seen_urls' = ex_seen_urls \cup {result.url}
  /\ ex_left' = ex_left - 1
  /\ ExecRecord(result)
  /\ UNCHANGED <<ex_plan_len, ex_pc, ex_q, ex_sent, ex_result, ex_failed, ex_survivors>>

\* One iteration of `for result in results`.
ExecLoopResult(result) ==
  /\ ex_pc = "loop"
  /\ ex_left > 0
  /\ LET c == CollectResults(<<result>>, ex_all_sources, ex_seen_urls, config.min_score)
     IN /\ ex_all_sources' = c.all_sources
        /\ ex_seen_urls' = c.seen_urls
  /\ ex_left' = ex_left - 1
  /\ ExecRecord(result)
  /\ UNCHANGED <<ex_plan_len, ex_pc, ex_q, ex_sent, ex_result, ex_failed, ex_survivors>>

\* The inner loop is over: next query, or sort, truncate and return.
ExecLoopEnd ==
  /\ ex_pc = "loop"
  /\ ex_left = 0
  /\ ExecNextQuery
  /\ UNCHANGED <<ex_plan_len, ex_left, ex_seen_urls, ex_failed, ex_first_seen, ex_dup_urls, ex_late_passing>>

ExecNext ==
  \/ ExecStart
  \/ ExecSearchReturn
  \/ \E result \in SearchResults : ExecLoopResult(result)
  \/ ExecLoopEnd

\* ------------------------------------------- synthesizer over a mock provider
MaxSynthSources == 3

\* `.take(3)` of MockLlmProvider::generate_answer.
MockCitations == 3

VARIABLES
  sy_sources,       \* the source list of the last Synthesizer::synthesize call
  sy_context,       \* the source list that call handed to the provider
  sy_pc,            \* idle / returned
  sy_call_count,    \* MockLlmProvider.call_count
  sy_count_before,  \* history: call_count when the last call began
  sy_fail_after,    \* MockLlmProvider.fail_after
  sy_confidence,    \* MockLlmProvider.confidence
  sy_result         \* what the last call returned

syVars ==
  <<sy_sources, sy_context, sy_pc, sy_call_count, sy_count_before, sy_fail_after,
    sy_confidence, sy_result>>

\* Sources a caller may pass; a list may hold the same url twice.
SynthSources == {into_source([url |-> u, title |-> t, score |-> ScoreOne]) :
                   u \in Urls, t \in Titles}

SynthSourceLists == SeqsUpTo(SynthSources, MaxSynthSources)

\* Synthesizer configurations; the executor's part of the config plays no role.
SynthConfigs == {c \in PipelineConfigs : c.max_sources = 0 /\ c.min_score = 0}

FailAfters == {None, Some(0), Some(1)}

Min(a, b) == IF a < b THEN a ELSE b

\* ResearchAnswer::is_answerable
is_answerable(answer) == answer.confidence # "Insufficient"

SyNoResult == [tag |-> "None", err |-> "-", answer |-> [confidence |-> "-", citations |-> <<>>]]
SyOk(answer) == [tag |-> "Ok", err |-> "-", answer |-> answer]
SyErr(kind) == [tag |-> "Err", err |-> kind, answer |-> [confidence |-> "-", citations |-> <<>>]]

\* MockLlmProvider::synthesize after the fetch_add that returned `count`;
\* a citation is modelled by the title its claim is built from.
MockSynthesize(count, fail_after, confidence, sources) ==
  IF fail_after # None /\ count >= fail_after[1] THEN SyErr("RateLimited")
  ELSE IF sources = <<>>
    THEN SyOk([confidence |-> "Insufficient", citations |-> <<>>])
  ELSE SyOk([confidence |-> confidence,
             citations |-> [i \in 1 .. Min(MockCitations, Len(sources)) |->
                              sources[i].title]])

\* A Synthesizer over a MockLlmProvider built with with_confidence / fail_after.
SynthInit(fail_afters, confidences) ==
  /\ sy_sources = <<>>
  /\ sy_context = None
  /\ sy_pc = "idle"
  /\ sy_call_count = 0
  /\ sy_count_before = 0
  /\ sy_fail_after \in fail_afters
  /\ sy_confidence \in confidences
  /\ sy_result = SyNoResult

\* a synthesize that keeps the last sources of the list instead of the first
SynthesizeKeepsLast(sources) ==
  /\ sy_call_count < MaxCalls
  /\ sy_sources' = sources
  /\ LET n == Min(Len(sources), config.max_context_sources)
         context_sources == SubSeq(sources, Len(sources) - n + 1, Len(sources))
     IN /\ sy_context' = Some(context_sources)
        /\ sy_count_before' = sy_call_count
        /\ sy_call_count' = sy_call_count + 1
        /\ sy_result' = MockSynthesize(sy_call_count, sy_fail_after, sy_confidence,
                                       context_sources)
  /\ sy_pc' = "returned"
  /\ UNCHANGED <<sy_fail_after, sy_confidence>>

\* Synthesizer::synthesize(query, sources): take(max_context_sources), then
\* the provider's synthesize, whose result is returned as it is.
Synthesize(sources) ==
  /\ sy_call_count < MaxCalls
  /\ sy_sources' = sources
  /\ LET context_sources == Truncate(sources, config.max_context_sources)
     IN /\ sy_context' = Some(context_sources)
        /\ sy_count_before' = sy_call_count
        /\ sy_call_count' = sy_call_count + 1
        /\ sy_result' = MockSynthesize(sy_call_count, sy_fail_after, sy_confidence,
                                       context_sources)
  /\ sy_pc' = "returned"
  /\ UNCHANGED <<sy_fail_after, sy_confidence>>

SynthNext == \E sources \in SynthSourceLists : Synthesize(sources)

\* ------------------------------------------------ synthesis response parser
\* A model text is a sequence of lexical pieces.  extract_json looks at the
\* characters only, so it sees the symbol of a piece; serde_json also knows
\* whether a piece lies inside a JSON string literal (q), where braces and
\* backticks are plain content.  "fields" stands for the members of an object
\* of the expected shape and carries the citations and the confidence string;
\* "badfields" stands for members that miss a required field, "fence" for
\* three backticks and "fence_json" for three backticks followed by json.
MaxTextLen == 5

VARIABLES
  pr_text,         \* the text handed to parse_synthesis_response
  pr_sources,      \* the ids of the sources handed to it, in order
  pr_origin,       \* history: the form and the JSON object the text was built from
  pr_pc,           \* idle / returned
  pr_json,         \* what extract_json returned
  pr_result        \* what parse_synthesis_response returned

prVars == <<pr_text, pr_sources, pr_origin, pr_pc, pr_json, pr_result>>

NoBody == [citations |-> <<>>, confidence |-> <<>>]

\* A piece of plain text with the given symbol.
Tok(sym) == [sym |-> sym, q |-> FALSE, body |-> NoBody]

\* A piece with the given symbol inside a JSON string literal.
Quoted(sym) == [sym |-> sym, q |-> TRUE, body |-> NoBody]

\* The members `"summary": .., "detail": .., "citations": .., "confidence": ..`.
Fields(citations, confidence) ==
  [sym |-> "fields", q |-> FALSE,
   body |-> [citations |-> citations, confidence |-> confidence]]

Fences == {"fence", "fence_json"}

\* str::trim
RECURSIVE TrimStart(_)
TrimStart(text) ==
  IF text # <<>> /\ Head(text).sym = "ws" THEN TrimStart(Tail(text)) ELSE text

RECURSIVE TrimEnd(_)
TrimEnd(text) ==
  IF text # <<>> /\ text[Len(text)].sym = "ws"
    THEN TrimEnd(SubSeq(text, 1, Len(text) - 1))
    ELSE text

Trim(text) == TrimEnd(TrimStart(text))

\* str::find / str::rfind: the first / last piece with one of the symbols, or 0.
Find(text, syms) ==
  IF \E i \in 1 .. Len(text) : text[i].sym \in syms
    THEN CHOOSE i \in 1 .. Len(text) :
           /\ text[i].sym \in syms
           /\ \A k \in 1 .. (i - 1) : text[k].sym \notin syms
    ELSE 0

RFind(text, syms) ==
  IF \E i \in 1 .. Len(text) : text[i].sym \in syms
    THEN CHOOSE i \in 1 .. Len(text) :
           /\ text[i].sym \in syms
           /\ \A k \in (i + 1) .. Len(text) : text[k].sym \notin syms
    ELSE 0

starts_with_brace(text) == text # <<>> /\ text[1].sym = "{"
ends_with_brace(text) == text # <<>> /\ text[Len(text)].sym = "}"

\* `&trimmed[start + 7..]`, the text after a json marker.
AfterJsonMarker(text, start) == SubSeq(text, start + 1, Len(text))

\* `&trimmed[start + 3..]` after three backticks; when they are those of a
\* json marker the rest begins with the word json.
AfterFence(text, start) ==
  IF text[start].sym = "fence_json"
    THEN <<Tok("txt")>> \o SubSeq(text, start + 1, Len(text))
    ELSE SubSeq(text, start + 1, Len(text))

JsonOk(text, by) == [ok |-> TRUE, text |-> text, by |-> by]
NoJsonFound == [ok |-> FALSE, text |-> <<>>, by |-> "none"]

\* The last strategy of extract_json: first brace to last brace.
ExtractBraces(trimmed) ==
  LET start == Find(trimmed, {"{"})
      end == RFind(trimmed, {"}"})
  IN IF start # 0 /\ end # 0 /\ start < end
       THEN JsonOk(SubSeq(trimmed, start, end), "d")
       ELSE NoJsonFound

\* The third strategy, which falls through to the last one.
ExtractFence(trimmed) ==
  LET start == Find(trimmed, Fences)
      after_marker == IF start = 0 THEN <<>> ELSE AfterFence(trimmed, start)
      end == Find(after_marker, Fences)
      inner == Trim(SubSeq(after_marker, 1, end - 1))
  IN IF start # 0 /\ end # 0 /\ starts_with_brace(inner)
       THEN JsonOk(inner, "c")
       ELSE ExtractBraces(trimmed)

\* a third strategy that takes the fenced text whatever it starts with
ExtractJsonFenceUnchecked(trimmed) ==
  LET start == Find(trimmed, {"fence_json"})
      after_marker == IF start = 0 THEN <<>> ELSE AfterJsonMarker(trimmed, start)
      end == Find(after_marker, Fences)
      start3 == Find(trimmed, Fences)
      after3 == IF start3 = 0 THEN <<>> ELSE AfterFence(trimmed, start3)
      end3 == Find(after3, Fences)
  IN IF start # 0 /\ end # 0
       THEN JsonOk(Trim(SubSeq(after_marker, 1, end - 1)), "b")
       ELSE IF start3 # 0 /\ end3 # 0
         THEN JsonOk(Trim(SubSeq(after3, 1, end3 - 1)), "c")
         ELSE ExtractBraces(trimmed)

\* The second strategy, which falls through to the third one.
ExtractJsonFence(trimmed) ==
  LET start == Find(trimmed, {"fence_json"})
      after_marker == IF start = 0 THEN <<>> ELSE AfterJsonMarker(trimmed, start)
      end == Find(after_marker, Fences)
  IN IF start # 0 /\ end # 0
       THEN JsonOk(Trim(SubSeq(after_marker, 1, end - 1)), "b")
       ELSE ExtractFence(trimmed)

\* extract_json
extract_json(text) ==
  LET trimmed == Trim(text)
  IN IF starts_with_brace(trimmed) /\ ends_with_brace(trimmed)
       THEN JsonOk(trimmed, "a")
       ELSE ExtractJsonFence(trimmed)

IsMember(piece) == ~piece.q /\ piece.sym # "ws"
IsQuoted(piece) == piece.q

InvalidJson == [ok |-> FALSE, body |-> NoBody, strings |-> <<>>]

\* serde_json::from_str::<RawSynthesisResponse>: the text, surrounding
\* whitespace aside, is one object whose members are of the expected shape;
\* the content of its string values is kept as it is.
Decode(json_text) ==
  LET t == Trim(json_text)
      inner == SubSeq(t, 2, Len(t) - 1)
      members == SelectSeq(inner, IsMember)
  IN IF /\ Len(t) >= 3
        /\ t[1] = Tok("{")
        /\ t[Len(t)] = Tok("}")
        /\ Len(members) = 1
        /\ members[1].sym = "fields"
       THEN [ok |-> TRUE, body |-> members[1].body, strings |-> SelectSeq(inner, IsQuoted)]
       ELSE InvalidJson

\* Source ids and raw citations a response may carry.
SourceIds == {"s1", "s2", "s3"}
Claims == {"c1", "c2"}
Quotes == {None, Some("q1")}
RawCitations == [claim : Claims, source_id : SourceIds, quote : Quotes]

\* `sources.iter().map(|s| (s.id.as_str(), &s.id)).collect()`: the keys.
SourceMap(sources) == {sources[i] : i \in 1 .. Len(sources)}

\* resolve_citation
resolve_citation(raw, source_map) ==
  IF raw.source_id \in source_map
    THEN Some([claim |-> raw.claim, source_id |-> raw.source_id, quote |-> raw.quote])
    ELSE None

\* a citation filter that keeps a citation of an unknown source
FilterMapCitationsKeepAll(citations, source_map) ==
  [i \in 1 .. Len(citations) |->
     [claim |-> citations[i].claim, source_id |-> citations[i].source_id,
      quote |-> citations[i].quote]]

\* `.into_iter().filter_map(|c| resolve_citation(c, &source_map)).collect()`
FilterMapCitations(citations, source_map) ==
  LET Resolved(i) == resolve_citation(citations[i], source_map)
      F[i \in 0 .. Len(citations)] ==
        IF i = 0 THEN <<>>
        ELSE IF Resolved(i) = None THEN F[i - 1]
        ELSE Append(F[i - 1], Resolved(i)[1])
  IN F[Len(citations)]

\* Letters of the confidence strings, upper case and lower case.
UpperChars ==
  <<"H", "I", "G", "M", "E", "D", "U", "L", "O", "W", "N", "S", "F", "C", "T", "R", "A">>
LowerChars ==
  <<"h", "i", "g", "m", "e", "d", "u", "l", "o", "w", "n", "s", "f", "c", "t", "r", "a">>

\* char::to_lowercase on these letters.
ToLowerChar(c) ==
  IF \E i \in 1 .. Len(UpperChars) : UpperChars[i] = c
    THEN LowerChars[CHOOSE i \in 1 .. Len(UpperChars) : UpperChars[i] = c]
    ELSE c

\* str::to_lowercase
to_lowercase(s) == [i \in 1 .. Len(s) |-> ToLowerChar(s[i])]

\* a confidence mapping that compares the string as it is
parse_confidence_exact(s) ==
  CASE s = <<"h", "i", "g", "h">> -> "High"
    [] s = <<"m", "e", "d", "i", "u", "m">> -> "Medium"
    [] s = <<"l", "o", "w">> -> "Low"
    [] s = <<"i", "n", "s", "u", "f", "f", "i", "c", "i", "e", "n", "t">> -> "Insufficient"
    [] OTHER -> "Medium"

\* parse_confidence
parse_confidence(s) ==
  LET lower == to_lowercase(s)
  IN CASE lower = <<"h", "i", "g", "h">> -> "High"
       [] lower = <<"m", "e", "d", "i", "u", "m">> -> "Medium"
       [] lower = <<"l", "o", "w">> -> "Low"
       [] lower = <<"i", "n", "s", "u", "f", "f", "i", "c", "i", "e", "n", "t">>
            -> "Insufficient"
       [] OTHER -> "Medium"

PrNoResult == [tag |-> "None", citations |-> <<>>, confidence |-> "-", strings |-> <<>>]
PrErr(kind) == [tag |-> kind, citations |-> <<>>, confidence |-> "-", strings |-> <<>>]

\* parse_synthesis_response; the answer's summary, detail and limitations are
\* the string content of the decoded object.
parse_synthesis_response(text, sources) ==
  LET json_text == extract_json(text)
      raw == Decode(json_text.text)
  IN IF ~json_text.ok THEN PrErr("NoJsonFound")
     ELSE IF ~raw.ok THEN PrErr("InvalidJson")
     ELSE [tag |-> "Ok",
           citations |-> FilterMapCitations(raw.body.citations, SourceMap(sources)),
           confidence |-> parse_confidence(raw.body.confidence),
           strings |-> raw.strings]

\* The response texts and source lists of the citation cases.
MaxCitations == 2
MaxSourceList == 2

HighString == <<"h", "i", "g", "h">>

\* A bare JSON object of the expected shape.
BareObject(citations, confidence) ==
  <<Tok("{"), Fields(citations, confidence), Tok("}")>>

CitationTexts ==
  {BareObject(citations, HighString) : citations \in SeqsUpTo(RawCitations, MaxCitations)}

\* The sources of a call are some of the known ones; "s3" is never among them.
SourceLists == SeqsUpTo({"s1", "s2"}, MaxSourceList)

\* The content of the string values of an answer object (summary, detail,
\* limitations): plain words, braces and backticks.
MaxQuoted == 2
QuotedPieces == {Quoted("txt"), Quoted("{"), Quoted("}"), Quoted("fence")}

\* Well-formed answer objects: the members and the content of their strings.
AnswerObjects ==
  {<<Tok("{"), Fields(citations, HighString)>> \o strings \o <<Tok("}")>> :
     citations \in {<<>>} \cup {<<c>> : c \in RawCitations},
     strings \in SeqsUpTo(QuotedPieces, MaxQuoted)}

\* The ways a model embeds its answer object in the response text.
Forms == {"bare", "json_fence", "prose_json_fence", "bare_fence", "prose"}

Embed(form, object) ==
  CASE form = "bare" -> object
    [] form = "json_fence" ->
         <<Tok("fence_json"), Tok("ws")>> \o object \o <<Tok("ws"), Tok("fence")>>
    [] form = "prose_json_fence" ->
         <<Tok("txt"), Tok("ws"), Tok("fence_json"), Tok("ws")>> \o object
           \o <<Tok("ws"), Tok("fence")>>
    [] form = "bare_fence" ->
         <<Tok("fence"), Tok("ws")>> \o object \o <<Tok("ws"), Tok("fence")>>
    [] form = "prose" ->
         <<Tok("txt"), Tok("ws")>> \o object \o <<Tok("ws"), Tok("txt")>>

Origins == [form : Forms, object : AnswerObjects]

\* Arbitrary model texts: braces, fences, whitespace, words, the members of
\* an object of the expected shape and members that miss a field.
TextPieces ==
  {Tok("{"), Tok("}"), Tok("fence"), Tok("fence_json"), Tok("ws"), Tok("txt"),
   Fields(<<>>, HighString), Tok("badfields")}

Texts == SeqsUpTo(TextPieces, MaxTextLen)

\* char::to_uppercase on these letters.
ToUpperChar(c) ==
  IF \E i \in 1 .. Len(LowerChars) : LowerChars[i] = c
    THEN UpperChars[CHOOSE i \in 1 .. Len(LowerChars) : LowerChars[i] = c]
    ELSE c

\* A word in every mix of upper and lower case.
CaseVariants(word) ==
  {[i \in 1 .. Len(word) |-> IF upper[i] THEN ToUpperChar(word[i]) ELSE word[i]] :
     upper \in [1 .. Len(word) -> BOOLEAN]}

\* The four level names and words that are none of them.
LevelWords ==
  {<<"h", "i", "g", "h">>, <<"m", "e", "d", "i", "u", "m">>, <<"l", "o", "w">>,
   <<"i", "n", "s", "u", "f", "f", "i", "c", "i", "e", "n", "t">>}
OtherWords ==
  {<<>>, <<"u", "n", "c", "e", "r", "t", "a", "i", "n">>, <<"h", "i", "g">>,
   <<"l", "o", "w", "s">>, <<"h", "i", "g", "h", "-">>, <<"1">>}

ConfidenceStrings == UNION {CaseVariants(w) : w \in LevelWords \cup OtherWords}

ConfidenceTexts == {BareObject(<<>>, c) : c \in ConfidenceStrings}

\* The text was not built from an answer object.
NoOrigin == [form |-> "none", object |-> <<>>]

\* The text of an embedded answer object, nothing parsed yet.
EmbedInit(source_lists) ==
  /\ pr_origin \in Origins
  /\ pr_text = Embed(pr_origin.form, pr_origin.object)
  /\ pr_sources \in source_lists
  /\ pr_pc = "idle"
  /\ pr_json = NoJsonFound
  /\ pr_result = PrNoResult

\* A text and a source list, nothing parsed yet.
ParseInit(texts, source_lists, origins) ==
  /\ pr_origin \in origins
  /\ pr_text \in texts
  /\ pr_sources \in source_lists
  /\ pr_pc = "idle"
  /\ pr_json = NoJsonFound
  /\ pr_result = PrNoResult

\* One call of parse_synthesis_response(text, sources, model, tokens_used).
ParseResponse ==
  /\ pr_pc = "idle"
  /\ pr_json' = extract_json(pr_text)
  /\ pr_result' = parse_synthesis_response(pr_text, pr_sources)
  /\ pr_pc' = "returned"
  /\ UNCHANGED <<pr_text, pr_sources, pr_origin>>

ParseNext == ParseResponse

\* ------------------------------------------------- callers of a MockStore
\* Tasks that share one MockStore and call create_job and update_job on it.
\* The body of either method runs under the write lock of `jobs` from its
\* first statement to its return, so the bodies of different calls do not
\* interleave; a call that has been made and whose body has not run yet is
\* in flight together with every other such call.
MaxStoreCalls == 3

VARIABLES
  st_jobs,         \* MockStore.jobs
  st_sources,      \* MockStore.sources
  st_pc,           \* per caller: idle / called
  st_call,         \* per caller: the call in flight
  st_log           \* history: the calls that returned, in the order of their bodies

stVars == <<st_jobs, st_sources, st_pc, st_call, st_log>>

Callers == {"t1", "t2"}
CallerOps == {"create_job", "update_job"}

\* The jobs a caller passes: as created, and after a transition.
CallerJobs == {NewJob, transition_to(NewJob, "Planning")}

NoCall == [op |-> "-", id |-> "-", job |-> NewJob, inv_at |-> 0]

InFlight == {c \in Callers : st_pc[c] = "called"}

StoreClientInit ==
  /\ st_jobs = [k \in {} |-> NewJob]
  /\ st_sources = [k \in {} |-> <<>>]
  /\ st_pc = [c \in Callers |-> "idle"]
  /\ st_call = [c \in Callers |-> NoCall]
  /\ st_log = <<>>

\* A task calls a method of the store; the body has not run yet.
StCall(c, op, id, job) ==
  /\ st_pc[c] = "idle"
  /\ Len(st_log) + Cardinality(InFlight) < MaxStoreCalls
  /\ st_pc' = [st_pc EXCEPT ![c] = "called"]
  /\ st_call' = [st_call EXCEPT ![c] = [op |-> op, id |-> id, job |-> job, inv_at |-> Len(st_log)]]
  /\ UNCHANGED <<st_jobs, st_sources, st_log>>

\* The record of a call that returned.
StReturned(c, out) ==
  [caller |-> c, op |-> st_call[c].op, id |-> st_call[c].id, job |-> st_call[c].job,
   inv_at |-> st_call[c].inv_at, err |-> out.err, before |-> st_jobs, after |-> out.jobs,
   stored |-> st_sources, val |-> None]

\* MockStore::create_job, from taking the write lock to the return.
StCreateJob(c) ==
  /\ st_pc[c] = "called"
  /\ st_call[c].op = "create_job"
  /\ LET out == StoreCreateJob(st_jobs, st_call[c].id, st_call[c].job, "none")
     IN /\ st_jobs' = out.jobs
        /\ st_log' = Append(st_log, StReturned(c, out))
  /\ st_pc' = [st_pc EXCEPT ![c] = "idle"]
  /\ st_call' = [st_call EXCEPT ![c] = NoCall]
  /\ UNCHANGED st_sources

\* MockStore::update_job, from taking the write lock to the return.
StUpdateJob(c) ==
  /\ st_pc[c] = "called"
  /\ st_call[c].op = "update_job"
  /\ LET out == StoreUpdateJob(st_jobs, st_call[c].id, st_call[c].job, "none")
     IN /\ st_jobs' = out.jobs
        /\ st_log' = Append(st_log, StReturned(c, out))
  /\ st_pc' = [st_pc EXCEPT ![c] = "idle"]
  /\ st_call' = [st_call EXCEPT ![c] = NoCall]
  /\ UNCHANGED st_sources

StoreClientNext ==
  \/ \E c \in Callers, op \in CallerOps, id \in JobIds, job \in CallerJobs : StCall(c, op, id, job)
  \/ \E c \in Callers : StCreateJob(c)
  \/ \E c \in Callers : StUpdateJob(c)

\* The lookups of the store, next to the calls that fill it.
LookupOps == {"create_job", "store_sources", "get_job", "get_sources"}

\* The source list a caller stores.
CallerSources == <<into_source([url |-> "u1", title |-> "t1", score |-> ScoreOne])>>

\* The record of a lookup that returned val.
StLookedUp(c, val) ==
  [caller |-> c, op |-> st_call[c].op, id |-> st_call[c].id, job |-> st_call[c].job,
   inv_at |-> st_call[c].inv_at, err |-> None, before |-> st_jobs, after |-> st_jobs,
   stored |-> st_sources, val |-> val]

\* MockStore::store_sources, from taking the write lock to the return.
StStoreSources(c) ==
  /\ st_pc[c] = "called"
  /\ st_call[c].op = "store_sources"
  /\ LET out == StoreStoreSources(st_sources, st_call[c].id, CallerSources, "none")
     IN /\ st_sources' = out.sources
        /\ st_log' = Append(st_log, [StLookedUp(c, None) EXCEPT !.err = out.err])
  /\ st_pc' = [st_pc EXCEPT ![c] = "idle"]
  /\ st_call' = [st_call EXCEPT ![c] = NoCall]
  /\ UNCHANGED st_jobs

\* MockStore::get_job, from taking the read lock to the return.
StGetJob(c) ==
  /\ st_pc[c] = "called"
  /\ st_call[c].op = "get_job"
  /\ st_log' = Append(st_log, StLookedUp(c, Some(StoreGetJob(st_jobs, st_call[c].id))))
  /\ st_pc' = [st_pc EXCEPT ![c] = "idle"]
  /\ st_call' = [st_call EXCEPT ![c] = NoCall]
  /\ UNCHANGED <<st_jobs, st_sources>>

\* MockStore::get_sources, from taking the read lock to the return.
StGetSources(c) ==
  /\ st_pc[c] = "called"
  /\ st_call[c].op = "get_sources"
  /\ st_log' = Append(st_log, StLookedUp(c, Some(StoreGetSources(st_sources, st_call[c].id))))
  /\ st_pc' = [st_pc EXCEPT ![c] = "idle"]
  /\ st_call' = [st_call EXCEPT ![c] = NoCall]
  /\ UNCHANGED <<st_jobs, st_sources>>

StoreLookupNext ==
  \/ \E c \in Callers, op \in LookupOps, id \in JobIds : StCall(c, op, id, NewJob)
  \/ \E c \in Callers : StCreateJob(c)
  \/ \E c \in Callers : StStoreSources(c)
  \/ \E c \in Callers : StGetJob(c)
  \/ \E c \in Callers : StGetSources(c)

\* ------------------------------------------------- setting up an LlmRegistry
\* The calls of register, set_default and set_fallback on one registry (or
\* of register, default_model and fallback_model on its builder), in order.
MaxSetupOps == 4

VARIABLES
  reg_log          \* history: the set-up calls, each with the default before and after

setupVars == <<reg_log>>

SetupInit == reg_log = <<>>

SetupDone(op, key) ==
  /\ Len(reg_log) < MaxSetupOps
  /\ reg_log' = Append(reg_log, [op |-> op, key |-> key, before |-> default_model,
                                 after |-> default_model'])

SetupNext ==
  \/ \E k \in ModelKeys, p \in LlmProviders : Register(k, p) /\ SetupDone("register", k)
  \/ \E k \in ModelKeys : SetDefault(k) /\ SetupDone("set_default", k)
  \/ \E k \in ModelKeys : SetFallback(k) /\ SetupDone("set_fallback", k)

\* ------------------------------------------------- search ProviderRegistry
MaxRegistrations == 4

VARIABLES
  sr_providers,    \* ProviderRegistry.providers: id -> provider handle
  sr_order,        \* ProviderRegistry.order
  sr_log           \* history: the register calls, in order

srVars == <<sr_providers, sr_order, sr_log>>

\* Ids and provider handles used with register.
RegistryIds == {"tavily", "exa", "searxng"}
SearchHandles == {"h1", "h2"}

\* ProviderRegistry::new
SrInit ==
  /\ sr_providers = [k \in {} |-> "h1"]
  /\ sr_order = <<>>
  /\ sr_log = <<>>

\* a register that pushes the id onto the order on every call
SrRegisterAlwaysPushes(id, provider) ==
  /\ Len(sr_log) < MaxRegistrations
  /\ sr_order' = Append(sr_order, id)
  /\ sr_providers' = MapPut(sr_providers, id, provider)
  /\ sr_log' = Append(sr_log, [id |-> id, provider |-> provider])

\* ProviderRegistry::register
SrRegister(id, provider) ==
  /\ Len(sr_log) < MaxRegistrations
  /\ sr_order' = IF id \notin DOMAIN sr_providers THEN Append(sr_order, id) ELSE sr_order
  /\ sr_providers' = MapPut(sr_providers, id, provider)
  /\ sr_log' = Append(sr_log, [id |-> id, provider |-> provider])

\* ProviderRegistry::get
SrGet(id) == IF id \in DOMAIN sr_providers THEN Some(sr_providers[id]) ELSE None

\* ProviderRegistry::default_provider
default_provider == IF sr_order = <<>> THEN None ELSE SrGet(sr_order[1])

\* The filter_map of providers_in_order over the first n ids of the order.
RECURSIVE InOrderUpTo(_)
InOrderUpTo(n) ==
  IF n = 0 THEN <<>>
  ELSE IF SrGet(sr_order[n]) = None THEN InOrderUpTo(n - 1)
  ELSE Append(InOrderUpTo(n - 1), SrGet(sr_order[n])[1])

\* ProviderRegistry::providers_in_order
providers_in_order == InOrderUpTo(Len(sr_order))

\* ProviderRegistry::len
SrLen == Cardinality(DOMAIN sr_providers)

SrNext == \E id \in RegistryIds, provider \in SearchHandles : SrRegister(id, provider)

\* ------------------------------------------------ vendor error responses
VARIABLES
  vendor_resp      \* the HTTP error response the primary's vendor gave to the call

vendorVars == <<vendor_resp>>

Vendors == {"openai", "anthropic"}

\* reqwest::StatusCode values that are not successes; FORBIDDEN stands for
\* every status the mappings have no arm for.
HttpStatuses ==
  {"BAD_REQUEST", "UNAUTHORIZED", "FORBIDDEN", "NOT_FOUND", "TOO_MANY_REQUESTS",
   "INTERNAL_SERVER_ERROR", "BAD_GATEWAY", "SERVICE_UNAVAILABLE", "GATEWAY_TIMEOUT"}

\* A response body: None when serde_json::from_str fails, otherwise the
\* fields the mappings read: error.code (OpenAI), error.type and whether
\* error.message contains "token" (Anthropic).
OpenAiBodies ==
  {None} \cup {Some([code |-> c]) : c \in {"context_length_exceeded", "other", "null"}}

AnthropicBodies ==
  {None} \cup
    {Some([error_type |-> t, token |-> k]) :
       t \in {"invalid_request_error", "overloaded_error", "api_error"}, k \in BOOLEAN}

VendorBodies(vendor) == IF vendor = "openai" THEN OpenAiBodies ELSE AnthropicBodies

LlmErr(kind, msg) == [kind |-> kind, msg |-> msg]

\* map_openai_error: `match status { .. }`.
map_openai_error(status, parsed) ==
  CASE status = "UNAUTHORIZED" -> LlmErr("Provider", "invalid API key")
    [] status = "TOO_MANY_REQUESTS" -> LlmErr("RateLimited", "-")
    [] status = "BAD_REQUEST" ->
         IF parsed # None
           THEN IF parsed[1].code = "context_length_exceeded"
                  THEN LlmErr("ContextLengthExceeded", "-")
                  ELSE LlmErr("Provider", "error.message")
           ELSE LlmErr("Provider", "body")
    [] status = "NOT_FOUND" ->
         IF parsed # None THEN LlmErr("ModelUnavailable", "error.message")
                          ELSE LlmErr("ModelUnavailable", "unknown")
    [] status \in {"SERVICE_UNAVAILABLE", "BAD_GATEWAY", "GATEWAY_TIMEOUT"} ->
         LlmErr("Provider", "service unavailable: status")
    [] OTHER ->
         IF parsed # None THEN LlmErr("Provider", "error.message")
                          ELSE LlmErr("Provider", "HTTP status: body")

\* map_anthropic_error: `match status { .. }`.
map_anthropic_error(status, parsed) ==
  CASE status = "UNAUTHORIZED" -> LlmErr("Provider", "invalid API key")
    [] status = "TOO_MANY_REQUESTS" -> LlmErr("RateLimited", "-")
    [] status = "BAD_REQUEST" ->
         IF parsed # None
           THEN IF parsed[1].error_type = "invalid_request_error" /\ parsed[1].token
                  THEN LlmErr("ContextLengthExceeded", "-")
                  ELSE LlmErr("Provider", "error.message")
           ELSE LlmErr("Provider", "body")
    [] status = "NOT_FOUND" ->
         IF parsed # None THEN LlmErr("ModelUnavailable", "error.message")
                          ELSE LlmErr("ModelUnavailable", "unknown")
    [] status \in {"SERVICE_UNAVAILABLE", "BAD_GATEWAY", "GATEWAY_TIMEOUT",
                   "INTERNAL_SERVER_ERROR"} ->
         IF parsed # None /\ parsed[1].error_type = "overloaded_error"
           THEN LlmErr("RateLimited", "-")
           ELSE LlmErr("Provider", "service unavailable: status")
    [] OTHER ->
         IF parsed # None THEN LlmErr("Provider", "error.message")
                          ELSE LlmErr("Provider", "HTTP status: body")

\* `if !status.is_success() { return Err(map_.._error(status, &body)); }`
\* of the vendor's client.
MapVendorError(vendor, status, parsed) ==
  IF vendor = "openai" THEN map_openai_error(status, parsed)
                       ELSE map_anthropic_error(status, parsed)

NoResponse == [vendor |-> "-", status |-> "-", body |-> None]

VendorInit == vendor_resp = NoResponse

\* The primary's client got an error status from its vendor: the mapped
\* error is what primary.synthesize returns to synthesize_with_fallback.
PrimaryHttpError(vendor, status, body) ==
  /\ reg_pc = "primary_wait"
  /\ vendor_resp' = [vendor |-> vendor, status |-> status, body |-> body]
  /\ PrimaryAnswered([ok |-> FALSE, val |-> MapVendorError(vendor, status, body).kind])

\* The registry between and around calls; a new call forgets the response
\* the previous one got.
VendorNext ==
  \/ \E k \in ModelKeys, p \in LlmProviders : Register(k, p) /\ UNCHANGED vendor_resp
  \/ \E k \in ModelKeys : SetFallback(k) /\ UNCHANGED vendor_resp
  \/ \E m \in {None} \cup {Some(k) : k \in ModelKeys} :
       CallStart(m) /\ vendor_resp' = NoResponse
  \/ \E vendor \in Vendors, status \in HttpStatuses :
       \E body \in VendorBodies(vendor) : PrimaryHttpError(vendor, status, body)
  \/ FallbackReturn /\ UNCHANGED vendor_resp

\* ---------------------------------------------------------- specifications
DefaultConfig == [max_sources |-> 10, min_score |-> 0, max_context_sources |-> 5]

PipeNext ==
  \/ \E j \in JobIds, fault \in StoreFaults : CreateJob(j, fault)
  \/ \E j \in JobIds, fault \in StoreFaults : RunPlanning(j, fault)
  \/ \E j \in JobIds, fault \in StoreFaults : RunSearching(j, fault)
  \/ \E j \in JobIds : SearchInvoke(j)
  \/ \E j \in JobIds : SearchReturn(j)
  \/ \E j \in JobIds, fault \in StoreFaults : RunNoSources(j, fault)
  \/ \E j \in JobIds, fault \in StoreFaults : RunStoreSources(j, fault)
  \/ \E j \in JobIds, fault \in StoreFaults : RunSynthesizing(j, fault)
  \/ \E j \in JobIds : LlmInvoke(j)
  \/ \E j \in JobIds : LlmReturn(j)
  \/ \E j \in JobIds, fault \in StoreFaults : RunCompleted(j, fault)

LlmNext ==
  \/ \E k \in ModelKeys, p \in LlmProviders : Register(k, p)
  \/ \E k \in ModelKeys : SetDefault(k)
  \/ \E k \in ModelKeys : SetFallback(k)
  \/ \E m \in {None} \cup {Some(k) : k \in ModelKeys} : CallStart(m)
  \/ PrimaryReturn
  \/ FallbackReturn

FsNext ==
  \/ FsSearch
  \/ FsReturn

\* Several runs over one Store: what the capabilities answer to each run.
ConcSearchOutcomes ==
  {out \in SearchOutcomes :
     IF out.ok
       THEN Len(out.results) <= 1 /\ \A i \in 1 .. Len(out.results) : out.results[i].title = "t1"
       ELSE out.err = "Timeout"}

ConcLlmOutcomes == {out \in LlmOutcomes : out.val \in {"High", "Timeout"}}

ConcConfigs ==
  {c \in PipelineConfigs :
     c.max_sources = MaxSourcesCfg /\ c.max_context_sources = MaxContextCfg}

\* Pipeline::run for every job as its own task over the shared MockStore; a
\* task is suspended at each await and any other task may run in between.
ConcNext ==
  \/ \E j \in JobIds : CreateJob(j, "none")
  \/ \E j \in JobIds : RunPlanning(j, "none")
  \/ \E j \in JobIds : RunSearching(j, "none")
  \/ \E j \in JobIds : SearchInvoke(j)
  \/ \E j \in JobIds : pc[j] = "search_wait" /\ \E out \in ConcSearchOutcomes : SearchAnswered(j, out)
  \/ \E j \in JobIds : RunNoSources(j, "none")
  \/ \E j \in JobIds : RunStoreSources(j, "none")
  \/ \E j \in JobIds : RunSynthesizing(j, "none")
  \/ \E j \in JobIds : LlmInvoke(j)
  \/ \E j \in JobIds : pc[j] = "llm_wait" /\ \E out \in ConcLlmOutcomes : LlmAnswered(j, out)
  \/ \E j \in JobIds : RunCompleted(j, "none")

vars == <<pipeVars, llmVars, fsVars, clsVars, jobVars, exVars, syVars, prVars, stVars, setupVars, srVars, vendorVars>>

\* One job submitted to a Pipeline over a fresh Store.
Init ==
  /\ PipeInit({"job_1"}, PipelineConfigs)
  /\ LlmInit
  /\ FsInit({<<>>})
  /\ ClsInit
  /\ JobInit
  /\ ExecInit({0})
  /\ SynthInit({None}, {"High"})
  /\ ParseInit({<<>>}, {<<>>}, {NoOrigin})
  /\ StoreClientInit
  /\ SetupInit
  /\ SrInit
  /\ VendorInit

Next == PipeNext /\ UNCHANGED <<llmVars, fsVars, clsVars, jobVars, exVars, syVars, prVars, stVars, setupVars, srVars, vendorVars>>

Spec == Init /\ [][Next]_vars

\* A registry being set up and asked to synthesize.
InitLlm ==
  /\ PipeInit({}, {DefaultConfig})
  /\ LlmInit
  /\ FsInit({<<>>})
  /\ ClsInit
  /\ JobInit
  /\ ExecInit({0})
  /\ SynthInit({None}, {"High"})
  /\ ParseInit({<<>>}, {<<>>}, {NoOrigin})
  /\ StoreClientInit
  /\ SetupInit
  /\ SrInit
  /\ VendorInit

NextLlm == LlmNext /\ UNCHANGED <<pipeVars, fsVars, clsVars, jobVars, exVars, syVars, prVars, stVars, setupVars, srVars, vendorVars>>

SpecLlm == InitLlm /\ [][NextLlm]_vars

\* One search call on a FallbackSearchProvider over any list of providers.
InitSearch ==
  /\ PipeInit({}, {DefaultConfig})
  /\ LlmInit
  /\ FsInit(ProviderLists)
  /\ ClsInit
  /\ JobInit
  /\ ExecInit({0})
  /\ SynthInit({None}, {"High"})
  /\ ParseInit({<<>>}, {<<>>}, {NoOrigin})
  /\ StoreClientInit
  /\ SetupInit
  /\ SrInit
  /\ VendorInit

NextSearch == FsNext /\ UNCHANGED <<pipeVars, llmVars, clsVars, jobVars, exVars, syVars, prVars, stVars, setupVars, srVars, vendorVars>>

SpecSearch == InitSearch /\ [][NextSearch]_vars

\* Errors being classified while a configured LlmRegistry and a two-provider
\* FallbackSearchProvider each answer a call.
InitVerdict ==
  /\ PipeInit({}, {DefaultConfig})
  /\ LlmInitTwoModels
  /\ FsInit({<<"sA", "sB">>})
  /\ ClsInit
  /\ JobInit
  /\ ExecInit({0})
  /\ SynthInit({None}, {"High"})
  /\ ParseInit({<<>>}, {<<>>}, {NoOrigin})
  /\ StoreClientInit
  /\ SetupInit
  /\ SrInit
  /\ VendorInit

NextVerdict ==
  \/ /\ \E class \in ErrorClasses : \E kind \in KindsOf(class) : Classify(class, kind)
     /\ UNCHANGED <<pipeVars, llmVars, fsVars, jobVars, exVars, syVars, prVars, stVars, setupVars, srVars, vendorVars>>
  \/ /\ \/ CallStart(None)
        \/ PrimaryReturn
        \/ FallbackReturn
     /\ UNCHANGED <<pipeVars, fsVars, clsVars, jobVars, exVars, syVars, prVars, stVars, setupVars, srVars, vendorVars>>
  \/ /\ FsNext
     /\ UNCHANGED <<pipeVars, llmVars, clsVars, jobVars, exVars, syVars, prVars, stVars, setupVars, srVars, vendorVars>>

SpecVerdict == InitVerdict /\ [][NextVerdict]_vars

\* One job run by the Pipeline that AppState::pipeline builds from a registry
\* with a default and a distinct fallback model.
InitApp ==
  /\ PipeInit({"job_1"}, {DefaultConfig})
  /\ LlmInitBuilt(RegistryLookup(TwoModels, Some("m1")))
  /\ FsInit({<<>>})
  /\ ClsInit
  /\ JobInit
  /\ ExecInit({0})
  /\ SynthInit({None}, {"High"})
  /\ ParseInit({<<>>}, {<<>>}, {NoOrigin})
  /\ StoreClientInit
  /\ SetupInit
  /\ SrInit
  /\ VendorInit

NextApp ==
  \/ /\ \/ \E j \in JobIds, fault \in StoreFaults : CreateJob(j, fault)
        \/ \E j \in JobIds, fault \in StoreFaults : RunPlanning(j, fault)
        \/ \E j \in JobIds, fault \in StoreFaults : RunSearching(j, fault)
        \/ \E j \in JobIds : SearchInvoke(j)
        \/ \E j \in JobIds : SearchReturn(j)
        \/ \E j \in JobIds, fault \in StoreFaults : RunNoSources(j, fault)
        \/ \E j \in JobIds, fault \in StoreFaults : RunStoreSources(j, fault)
        \/ \E j \in JobIds, fault \in StoreFaults : RunSynthesizing(j, fault)
        \/ \E j \in JobIds, fault \in StoreFaults : RunCompleted(j, fault)
     /\ UNCHANGED <<llmVars, fsVars, clsVars, jobVars, exVars, syVars, prVars, stVars, setupVars, srVars, vendorVars>>
  \/ /\ \/ \E j \in JobIds : AppLlmInvoke(j)
        \/ \E j \in JobIds : AppLlmReturn(j)
     /\ UNCHANGED <<fsVars, clsVars, jobVars, exVars, syVars, prVars, stVars, setupVars, srVars, vendorVars>>

SpecApp == InitApp /\ [][NextApp]_vars

\* One ResearchJob under any calls of its mutators.
InitJob ==
  /\ PipeInit({}, {DefaultConfig})
  /\ LlmInit
  /\ FsInit({<<>>})
  /\ ClsInit
  /\ JobInit
  /\ ExecInit({0})
  /\ SynthInit({None}, {"High"})
  /\ ParseInit({<<>>}, {<<>>}, {NoOrigin})
  /\ StoreClientInit
  /\ SetupInit
  /\ SrInit
  /\ VendorInit

NextJob == JobNext /\ UNCHANGED <<pipeVars, llmVars, fsVars, clsVars, exVars, syVars, prVars, stVars, setupVars, srVars, vendorVars>>

SpecJob == InitJob /\ [][NextJob]_vars

\* One Executor::execute over a plan of any length up to MaxQueries.
InitExec ==
  /\ PipeInit({}, ExecConfigs)
  /\ LlmInit
  /\ FsInit({<<>>})
  /\ ClsInit
  /\ JobInit
  /\ ExecInit(0 .. MaxQueries)
  /\ SynthInit({None}, {"High"})
  /\ ParseInit({<<>>}, {<<>>}, {NoOrigin})
  /\ StoreClientInit
  /\ SetupInit
  /\ SrInit
  /\ VendorInit

NextExec == ExecNext /\ UNCHANGED <<pipeVars, llmVars, fsVars, clsVars, jobVars, syVars, prVars, stVars, setupVars, srVars, vendorVars>>

SpecExec == InitExec /\ [][NextExec]_vars

\* Calls of Synthesizer::synthesize on any source list, over any mock provider.
InitSynth ==
  /\ PipeInit({}, SynthConfigs)
  /\ LlmInit
  /\ FsInit({<<>>})
  /\ ClsInit
  /\ JobInit
  /\ ExecInit({0})
  /\ SynthInit(FailAfters, Confidence)
  /\ ParseInit({<<>>}, {<<>>}, {NoOrigin})
  /\ StoreClientInit
  /\ SetupInit
  /\ SrInit
  /\ VendorInit

NextSynth ==
  SynthNext /\ UNCHANGED <<pipeVars, llmVars, fsVars, clsVars, jobVars, exVars, prVars, stVars, setupVars, srVars, vendorVars>>

SpecSynth == InitSynth /\ [][NextSynth]_vars

\* parse_synthesis_response on objects of the expected shape, over their
\* citations and the sources of the call.
InitCite ==
  /\ PipeInit({}, {DefaultConfig})
  /\ LlmInit
  /\ FsInit({<<>>})
  /\ ClsInit
  /\ JobInit
  /\ ExecInit({0})
  /\ SynthInit({None}, {"High"})
  /\ ParseInit(CitationTexts, SourceLists, {NoOrigin})
  /\ StoreClientInit
  /\ SetupInit
  /\ SrInit
  /\ VendorInit

NextCite ==
  ParseNext /\ UNCHANGED <<pipeVars, llmVars, fsVars, clsVars, jobVars, exVars, syVars, stVars, setupVars, srVars, vendorVars>>

SpecCite == InitCite /\ [][NextCite]_vars

\* parse_synthesis_response on a well-formed answer object embedded in each
\* of the forms.
InitEmbed ==
  /\ PipeInit({}, {DefaultConfig})
  /\ LlmInit
  /\ FsInit({<<>>})
  /\ ClsInit
  /\ JobInit
  /\ ExecInit({0})
  /\ SynthInit({None}, {"High"})
  /\ EmbedInit({<<"s1">>})
  /\ StoreClientInit
  /\ SetupInit
  /\ SrInit
  /\ VendorInit

NextEmbed ==
  ParseNext /\ UNCHANGED <<pipeVars, llmVars, fsVars, clsVars, jobVars, exVars, syVars, stVars, setupVars, srVars, vendorVars>>

SpecEmbed == InitEmbed /\ [][NextEmbed]_vars

\* parse_synthesis_response on arbitrary model texts.
InitParse ==
  /\ PipeInit({}, {DefaultConfig})
  /\ LlmInit
  /\ FsInit({<<>>})
  /\ ClsInit
  /\ JobInit
  /\ ExecInit({0})
  /\ SynthInit({None}, {"High"})
  /\ ParseInit(Texts, {<<"s1">>}, {NoOrigin})
  /\ StoreClientInit
  /\ SetupInit
  /\ SrInit
  /\ VendorInit

NextParse ==
  ParseNext /\ UNCHANGED <<pipeVars, llmVars, fsVars, clsVars, jobVars, exVars, syVars, stVars, setupVars, srVars, vendorVars>>

SpecParse == InitParse /\ [][NextParse]_vars

\* parse_synthesis_response on objects of the expected shape, over their
\* confidence string.
InitConf ==
  /\ PipeInit({}, {DefaultConfig})
  /\ LlmInit
  /\ FsInit({<<>>})
  /\ ClsInit
  /\ JobInit
  /\ ExecInit({0})
  /\ SynthInit({None}, {"High"})
  /\ ParseInit(ConfidenceTexts, {<<"s1">>}, {NoOrigin})
  /\ StoreClientInit
  /\ SetupInit
  /\ SrInit
  /\ VendorInit

NextConf ==
  ParseNext /\ UNCHANGED <<pipeVars, llmVars, fsVars, clsVars, jobVars, exVars, syVars, stVars, setupVars, srVars, vendorVars>>

SpecConf == InitConf /\ [][NextConf]_vars

\* Tasks calling create_job and update_job on one MockStore.
InitStore ==
  /\ PipeInit({}, {DefaultConfig})
  /\ LlmInit
  /\ FsInit({<<>>})
  /\ ClsInit
  /\ JobInit
  /\ ExecInit({0})
  /\ SynthInit({None}, {"High"})
  /\ ParseInit({<<>>}, {<<>>}, {NoOrigin})
  /\ StoreClientInit
  /\ SetupInit
  /\ SrInit
  /\ VendorInit

NextStore ==
  StoreClientNext
    /\ UNCHANGED <<pipeVars, llmVars, fsVars, clsVars, jobVars, exVars, syVars, prVars, setupVars, srVars, vendorVars>>

SpecStore == InitStore /\ [][NextStore]_vars

\* Tasks filling one MockStore and looking jobs and sources up in it.
InitLookup ==
  /\ PipeInit({}, {DefaultConfig})
  /\ LlmInit
  /\ FsInit({<<>>})
  /\ ClsInit
  /\ JobInit
  /\ ExecInit({0})
  /\ SynthInit({None}, {"High"})
  /\ ParseInit({<<>>}, {<<>>}, {NoOrigin})
  /\ StoreClientInit
  /\ SetupInit
  /\ SrInit
  /\ VendorInit

NextLookup ==
  StoreLookupNext
    /\ UNCHANGED <<pipeVars, llmVars, fsVars, clsVars, jobVars, exVars, syVars, prVars, setupVars, srVars, vendorVars>>

SpecLookup == InitLookup /\ [][NextLookup]_vars

\* Every job submitted, the runs interleaving at their await points.
InitConc ==
  /\ PipeInit(JobIds, ConcConfigs)
  /\ LlmInit
  /\ FsInit({<<>>})
  /\ ClsInit
  /\ JobInit
  /\ ExecInit({0})
  /\ SynthInit({None}, {"High"})
  /\ ParseInit({<<>>}, {<<>>}, {NoOrigin})
  /\ StoreClientInit
  /\ SetupInit
  /\ SrInit
  /\ VendorInit

NextConc ==
  ConcNext /\ UNCHANGED <<llmVars, fsVars, clsVars, jobVars, exVars, syVars, prVars, stVars, setupVars, srVars, vendorVars>>

SpecConc == InitConc /\ [][NextConc]_vars

\* A registry being set up.
InitSetup ==
  /\ PipeInit({}, {DefaultConfig})
  /\ LlmInit
  /\ FsInit({<<>>})
  /\ ClsInit
  /\ JobInit
  /\ ExecInit({0})
  /\ SynthInit({None}, {"High"})
  /\ ParseInit({<<>>}, {<<>>}, {NoOrigin})
  /\ StoreClientInit
  /\ SetupInit
  /\ SrInit
  /\ VendorInit

NextSetup ==
  SetupNext
    /\ UNCHANGED <<pipeVars, fsVars, clsVars, jobVars, exVars, syVars, prVars, stVars, srVars, vendorVars>>

SpecSetup == InitSetup /\ [][NextSetup]_vars

\* A search ProviderRegistry being filled.
InitRegistry ==
  /\ PipeInit({}, {DefaultConfig})
  /\ LlmInit
  /\ FsInit({<<>>})
  /\ ClsInit
  /\ JobInit
  /\ ExecInit({0})
  /\ SynthInit({None}, {"High"})
  /\ ParseInit({<<>>}, {<<>>}, {NoOrigin})
  /\ StoreClientInit
  /\ SetupInit
  /\ SrInit
  /\ VendorInit

NextRegistry ==
  SrNext
    /\ UNCHANGED <<pipeVars, llmVars, fsVars, clsVars, jobVars, exVars, syVars, prVars, stVars, setupVars, vendorVars>>

SpecRegistry == InitRegistry /\ [][NextRegistry]_vars

\* Calls of synthesize_with_fallback whose primary gets an HTTP error status
\* from its vendor.
InitVendor ==
  /\ PipeInit({}, {DefaultConfig})
  /\ LlmInit
  /\ FsInit({<<>>})
  /\ ClsInit
  /\ JobInit
  /\ ExecInit({0})
  /\ SynthInit({None}, {"High"})
  /\ ParseInit({<<>>}, {<<>>}, {NoOrigin})
  /\ StoreClientInit
  /\ SetupInit
  /\ SrInit
  /\ VendorInit

NextVendor ==
  VendorNext
    /\ UNCHANGED <<pipeVars, fsVars, clsVars, jobVars, exVars, syVars, prVars, stVars, setupVars, srVars>>

SpecVendor == InitVendor /\ [][NextVendor]_vars

\* ------------------------------------------------------ pipeline properties
\* The events of a job's trace with the given operation.
Called(j, op) == \E i \in 1 .. Len(trace[j]) : trace[j][i].op = op

Returned(j, op, ok) ==
  \E i \in 1 .. Len(trace[j]) : trace[j][i].op = op /\ trace[j][i].ok = ok

LastEvent(j) == trace[j][Len(trace[j])]

StoreOps == {"create_job", "update_job", "store_sources"}

\* The status of the last create_job / update_job that returned Ok.
RECURSIVE LastPersisted(_)
LastPersisted(tr) ==
  IF tr = <<>> THEN "-"
  ELSE LET e == tr[Len(tr)] IN
    IF e.op \in {"create_job", "update_job"} /\ e.ok THEN e.status
    ELSE LastPersisted(SubSeq(tr, 1, Len(tr) - 1))

\* The statuses handed to update_job, in call order.
IsUpdate(e) == e.op = "update_job"
Writes(j) == SelectSeq(trace[j], IsUpdate)

StatusRank(status) ==
  CASE status = "Pending" -> 0
    [] status = "Planning" -> 1
    [] status = "Searching" -> 2
    [] status = "Fetching" -> 3
    [] status = "Synthesizing" -> 4
    [] status \in {"Completed", "Failed"} -> 5

\* C1: when the search capability returned an error and run has returned, run
\* returned PipelineError::Search and the Store holds the job as Failed with
\* the error's display text, not as Searching.
C1_SearchErrorFailsJob ==
  \A j \in JobIds :
    (pc[j] = "done" /\ Returned(j, "search_ret", FALSE)) =>
      /\ run_result[j] = ErrResult("Search", SearchErrorDisplay(search_out[j][1].err))
      /\ j \in DOMAIN jobs
      /\ jobs[j].status = "Failed"
      /\ jobs[j].error_message = Some(SearchErrorDisplay(search_out[j][1].err))

\* C2: when the LLM capability returned an error and run has returned, run
\* returned PipelineError::Synthesis and the Store holds the job as Failed
\* with the error's display text, not as Synthesizing.
C2_SynthesisErrorFailsJob ==
  \A j \in JobIds :
    (pc[j] = "done" /\ Returned(j, "synthesize_ret", FALSE)) =>
      /\ run_result[j].tag = "Synthesis"
      /\ j \in DOMAIN jobs
      /\ jobs[j].status = "Failed"
      /\ jobs[j].error_message = Some(run_result[j].msg)

\* C3: while the search capability is being called the Store holds Searching,
\* while the LLM capability is being called it holds Synthesizing, a failed
\* update_job is the last call the run makes, and the Store always holds the
\* status of the last create_job / update_job that succeeded.
C3_PersistBeforeNextStage ==
  \A j \in JobIds :
    /\ pc[j] = "search_wait" => (j \in DOMAIN jobs /\ jobs[j].status = "Searching")
    /\ pc[j] = "llm_wait" => (j \in DOMAIN jobs /\ jobs[j].status = "Synthesizing")
    /\ \A i \in 1 .. Len(trace[j]) :
         (trace[j][i].op = "update_job" /\ ~trace[j][i].ok) =>
           (i = Len(trace[j]) /\ pc[j] = "done")
    /\ j \in DOMAIN jobs => jobs[j].status = LastPersisted(trace[j])

C3_Witness ==
  \E j \in JobIds :
    pc[j] = "llm_wait" /\ j \in DOMAIN jobs /\ jobs[j].status = "Synthesizing"

\* C4: the statuses a run hands to update_job strictly advance in the order
\* Planning, Searching, Synthesizing, terminal; Fetching is never written and
\* nothing follows Completed or Failed.
C4_WritesMonotonic ==
  \A j \in JobIds :
    LET w == Writes(j) IN
      /\ \A i \in 1 .. Len(w) : w[i].status \notin {"Pending", "Fetching"}
      /\ \A i \in 1 .. Len(w) - 1 : StatusRank(w[i].status) < StatusRank(w[i + 1].status)

C4_Witness ==
  \E j \in JobIds :
    /\ Len(Writes(j)) = 3
    /\ Writes(j)[3].status = "Failed"
    /\ Writes(j)[3].ok

\* C5: when the search stage succeeded with zero sources, store_sources and
\* the LLM capability are never called, get_sources stays empty, and the run
\* ends by persisting the job as Failed with the no-sources message and
\* returning NoSources (or the storage error of that update_job).
C5_NoSourcesFailsJob ==
  \A j \in JobIds :
    (Returned(j, "search_ret", TRUE) /\ run_sources[j] = <<>>) =>
      /\ ~Called(j, "store_sources")
      /\ ~Called(j, "synthesize")
      /\ StoreGetSources(stored_sources, j) = <<>>
      /\ pc[j] \in {"searched", "done"}
      /\ pc[j] = "done" =>
           /\ LastEvent(j).op = "update_job" /\ LastEvent(j).status = "Failed"
           /\ IF LastEvent(j).ok
                THEN /\ run_result[j].tag = "NoSources"
                     /\ jobs[j] = [status |-> "Failed",
                                   error_message |-> Some("No sources found for query")]
                ELSE run_result[j].tag = "Store"

C5_Witness ==
  \E j \in JobIds :
    /\ pc[j] = "done"
    /\ search_out[j] # None /\ search_out[j][1].ok /\ search_out[j][1].results # <<>>
    /\ run_sources[j] = <<>>
    /\ run_result[j].tag = "NoSources"

AllStoreCallsOk(j) ==
  \A i \in 1 .. Len(trace[j]) : trace[j][i].op \in StoreOps => trace[j][i].ok

\* The conclusion of C6: Ok, Completed, 1..max_sources sources, all stored.
FullSuccess(j) ==
  /\ run_result[j].tag = "Ok"
  /\ run_job[j].status = "Completed"
  /\ Len(run_sources[j]) >= 1
  /\ Len(run_sources[j]) <= config.max_sources
  /\ j \in DOMAIN jobs /\ jobs[j].status = "Completed"
  /\ StoreGetSources(stored_sources, j) = run_sources[j]

SomeResultAtOrAbove(results, min_score) ==
  \E i \in 1 .. Len(results) : results[i].score >= min_score

\* Some result is the first one with its URL and scores at least min_score.
SomeFirstSeenAtOrAbove(results, min_score) ==
  \E i \in 1 .. Len(results) :
    /\ results[i].score >= min_score
    /\ \A k \in 1 .. i - 1 : results[k].url # results[i].url

\* C6 as stated: a finished run (max_sources at least 1) whose search returned
\* a result at or above min_score, whose LLM call did not fail and whose Store
\* calls all succeeded is a full success.
C6_SuccessAsStated ==
  \A j \in JobIds :
    ( /\ pc[j] = "done"
      /\ Returned(j, "create_job", TRUE)
      /\ Returned(j, "search_ret", TRUE)
      /\ SomeResultAtOrAbove(search_out[j][1].results, config.min_score)
      /\ config.max_sources >= 1
      /\ ~Returned(j, "synthesize_ret", FALSE)
      /\ AllStoreCallsOk(j) )
    => FullSuccess(j)

\* C6 amended: the same when some returned result is the first one with its
\* URL and is at or above min_score.
C6_SuccessFirstSeen ==
  \A j \in JobIds :
    ( /\ pc[j] = "done"
      /\ Returned(j, "create_job", TRUE)
      /\ Returned(j, "search_ret", TRUE)
      /\ SomeFirstSeenAtOrAbove(search_out[j][1].results, config.min_score)
      /\ config.max_sources >= 1
      /\ ~Returned(j, "synthesize_ret", FALSE)
      /\ AllStoreCallsOk(j) )
    => FullSuccess(j)

C6_Witness ==
  \E j \in JobIds :
    /\ pc[j] = "done"
    /\ run_result[j].tag = "Ok"
    /\ Len(run_sources[j]) = 2
    /\ Len(search_out[j][1].results) = 2
    /\ StoreGetSources(stored_sources, j) = run_sources[j]

\* C7: when the update_job that persists the Failed job is rejected, run
\* returns PipelineError::Store carrying that storage error.
C7_FailedPersistErrorPropagates ==
  \A j \in JobIds :
    ( /\ pc[j] = "done"
      /\ LastEvent(j).op = "update_job"
      /\ LastEvent(j).status = "Failed"
      /\ ~LastEvent(j).ok )
    => /\ run_result[j] = ErrResult("Store", StoreErrorDisplay("Connection"))
       /\ jobs[j].status # "Failed"

C7_Witness ==
  \E j \in JobIds :
    /\ pc[j] = "done"
    /\ trace[j] # <<>>
    /\ LastEvent(j) = Ev("update_job", "Failed", FALSE)
    /\ run_result[j].tag = "Store"

\* ------------------------------------------------------ registry properties
\* The error kinds the specification classifies as transient.
RetryableLlmKinds == {"RateLimited", "Timeout", "Network", "ModelUnavailable"}

\* The provider the fallback key resolves to, if any.
Fallback == RegistryLookup(providers, fallback_model)

\* A call has returned after its primary failed with the given kind.
PrimaryFailedWith(kinds) ==
  /\ reg_pc = "returned"
  /\ primary # None
  /\ ~primary_out.ok
  /\ primary_out.val \in kinds

\* The fallback resolves to a provider of another model than the primary.
FallbackDistinct ==
  /\ Fallback # None
  /\ ProviderModelId(Fallback[1]) # ProviderModelId(primary[1])

\* C8: after a retryable primary failure with a registered fallback of another
\* model, the call returned the fallback's outcome and invoked exactly the
\* primary and then the fallback, each once.
C8_FallbackOnRetryable ==
  (PrimaryFailedWith(RetryableLlmKinds) /\ FallbackDistinct) =>
    /\ invoked = <<primary[1], Fallback[1]>>
    /\ reg_result = RegResultOf(fallback_out, Fallback[1])

C8_Witness ==
  /\ PrimaryFailedWith(RetryableLlmKinds)
  /\ FallbackDistinct
  /\ call_model # None
  /\ reg_result.tag = "Ok"
  /\ reg_result.by = Fallback[1]

\* C9: after a non-retryable primary failure only the primary was invoked and
\* its error is what the call returned.
C9_NoFallbackOnNonRetryable ==
  PrimaryFailedWith({"ContentFiltered", "ContextLengthExceeded", "Provider"}) =>
    /\ invoked = <<primary[1]>>
    /\ reg_result = [tag |-> "Err", val |-> primary_out.val, by |-> primary[1]]

C9_Witness ==
  /\ PrimaryFailedWith({"ContentFiltered", "ContextLengthExceeded", "Provider"})
  /\ FallbackDistinct
  /\ reg_result.tag = "Err"

\* C10: a second invocation happens only on a provider of another model than
\* the first; after a retryable primary failure with no fallback configured,
\* an unregistered fallback key, or a fallback of the primary's own model,
\* only the primary was invoked and its error is what the call returned.
C10_FallbackOnlyWhenDistinct ==
  /\ Len(invoked) <= 2
  /\ Len(invoked) = 2 =>
       (invoked[2] # invoked[1] /\ ProviderModelId(invoked[2]) # ProviderModelId(invoked[1]))
  /\ (PrimaryFailedWith(RetryableLlmKinds) /\ ~FallbackDistinct) =>
       /\ invoked = <<primary[1]>>
       /\ reg_result = [tag |-> "Err", val |-> primary_out.val, by |-> primary[1]]

C10_Witness ==
  /\ PrimaryFailedWith(RetryableLlmKinds)
  /\ call_model # None
  /\ call_model = fallback_model
  /\ call_model # default_model
  /\ Fallback # None
  /\ invoked = <<primary[1]>>

\* C11: one call invokes at most two providers, never the same one twice, and
\* once the fallback was tried the call returned exactly the fallback's
\* outcome, an error included.
C11_NoChaining ==
  /\ Len(invoked) <= 2
  /\ Cardinality({invoked[i] : i \in 1 .. Len(invoked)}) = Len(invoked)
  /\ reg_pc = "fallback_wait" => Len(invoked) = 2
  /\ (reg_pc = "returned" /\ Len(invoked) = 2) =>
       /\ ~primary_out.ok
       /\ reg_result = [tag |-> IF fallback_out.ok THEN "Ok" ELSE "Err",
                        val |-> fallback_out.val, by |-> invoked[2]]

C11_Witness ==
  /\ reg_pc = "returned"
  /\ Len(invoked) = 2
  /\ ~fallback_out.ok
  /\ fallback_out.val = "Timeout"
  /\ primary_out.val = "RateLimited"
  /\ reg_result.val = "Timeout"

\* ------------------------------------------- fallback search properties
\* The invocations made so far are the first entries of the list, in order.
FsInOrder == fs_invoked = SubSeq(fs_providers, 1, Len(fs_invoked))

FsFailedRetryably(i) == ~fs_outs[i].ok /\ SearchIsRetryable(fs_outs[i].err.kind)

\* C12: providers are invoked in list order, one invocation per list entry;
\* a provider that succeeds ends the call with its results, every provider
\* before it failed with a retryable error, and none after it is invoked.
C12_FirstSuccessWins ==
  /\ FsInOrder
  /\ Len(fs_outs) \in {Len(fs_invoked), Len(fs_invoked) - 1}
  /\ \A i \in 1 .. Len(fs_outs) :
       fs_outs[i].ok =>
         /\ fs_pc = "returned"
         /\ fs_result = FsOk(fs_outs[i].results)
         /\ Len(fs_invoked) = i
         /\ Len(fs_outs) = i
         /\ \A k \in 1 .. (i - 1) : FsFailedRetryably(k)
  /\ fs_result.tag = "Ok" => (fs_outs # <<>> /\ fs_outs[Len(fs_outs)].ok)

C12_Witness ==
  /\ fs_pc = "returned"
  /\ Len(fs_providers) = 3
  /\ fs_providers[1] # fs_providers[2]
  /\ Len(fs_invoked) = 2
  /\ fs_outs[1].err.kind = "Timeout"
  /\ fs_result.tag = "Ok"
  /\ fs_result.results # <<>>

\* C13: when every provider of a non-empty list failed retryably, each list
\* entry was invoked once and the error returned is the last provider's; an
\* empty list returns ProviderUnavailable with nothing invoked.
C13_LastErrorWhenAllFail ==
  /\ (fs_pc = "returned" /\ fs_providers # <<>>
        /\ \A i \in 1 .. Len(fs_outs) : FsFailedRetryably(i)) =>
       /\ fs_invoked = fs_providers
       /\ Len(fs_outs) = Len(fs_providers)
       /\ fs_result = FsErr(fs_outs[Len(fs_outs)].err)
  /\ (fs_pc = "returned" /\ fs_providers = <<>>) =>
       /\ fs_result.tag = "Err"
       /\ fs_result.err.kind = "ProviderUnavailable"
       /\ fs_invoked = <<>>
       /\ fs_outs = <<>>

C13_Witness ==
  /\ fs_pc = "returned"
  /\ Len(fs_providers) = 3
  /\ Len(fs_outs) = 3
  /\ fs_outs[1].err.kind = "RateLimited"
  /\ fs_outs[2].err.kind = "Timeout"
  /\ fs_outs[3].err.kind = "Network"
  /\ fs_result.tag = "Err"
  /\ fs_result.err.kind = "Network"

\* C14: a non-retryable error ends the call at once: it is the error
\* returned, and no provider after the one that produced it is invoked.
C14_StopOnNonRetryable ==
  \A i \in 1 .. Len(fs_outs) :
    (~fs_outs[i].ok /\ ~SearchIsRetryable(fs_outs[i].err.kind)) =>
      /\ fs_pc = "returned"
      /\ fs_result = FsErr(fs_outs[i].err)
      /\ Len(fs_invoked) = i
      /\ Len(fs_outs) = i

C14_Witness ==
  /\ fs_pc = "returned"
  /\ Len(fs_providers) = 3
  /\ Len(fs_invoked) = 2
  /\ fs_outs[1].err.kind = "RateLimited"
  /\ fs_outs[2].err.kind = "InvalidQuery"
  /\ fs_result.tag = "Err"
  /\ fs_result.err.kind = "InvalidQuery"

\* ------------------------------------------------- classification properties
\* C15: the verdict for each listed kind is the stated one, and in both
\* fallback mechanisms the next provider is tried after a failure exactly
\* when the verdict for the failure's kind is "retryable".
C15_RetryableVerdict ==
  /\ classified # None =>
       LET c == classified[1]
       IN /\ c.retryable = IsRetryable(c.class, c.kind)
          /\ (c.class = "search"
                /\ c.kind \in {"RateLimited", "Timeout", "Network", "ProviderUnavailable"})
               => c.retryable
          /\ (c.class = "search" /\ c.kind = "InvalidQuery") => ~c.retryable
          /\ (c.class = "llm"
                /\ c.kind \in {"RateLimited", "Timeout", "Network", "ModelUnavailable"})
               => c.retryable
          /\ (c.class = "llm" /\ c.kind \in {"ContentFiltered", "ContextLengthExceeded"})
               => ~c.retryable
          /\ (c.class = "store" /\ c.kind = "Connection") => c.retryable
          /\ (c.class = "store" /\ c.kind \in {"JobNotFound", "Conflict"}) => ~c.retryable
  /\ (reg_pc \in {"fallback_wait", "returned"} /\ primary # None /\ ~primary_out.ok
        /\ FallbackDistinct) =>
       (Len(invoked) = 2 <=> LlmIsRetryable(primary_out.val))
  /\ \A i \in 1 .. Len(fs_outs) :
       (~fs_outs[i].ok /\ i < Len(fs_providers)) =>
         (Len(fs_invoked) > i <=> SearchIsRetryable(fs_outs[i].err.kind))

C15_Witness ==
  /\ classified = Some([class |-> "store", kind |-> "Connection", retryable |-> TRUE])
  /\ Len(invoked) = 2
  /\ primary_out.val = "ModelUnavailable"
  /\ Len(fs_invoked) = 2
  /\ fs_outs[1].err.kind = "Network"

\* ------------------------------------------------- application properties
\* C16: a run whose default LLM provider failed with a retryable error, with
\* a fallback of another model registered, does not end before the fallback
\* provider was invoked.
C16_PipelineUsesFallback ==
  \A j \in JobIds :
    (pc[j] = "done" /\ Returned(j, "synthesize_ret", FALSE)
      /\ ~primary_out.ok /\ primary_out.val \in RetryableLlmKinds /\ FallbackDistinct) =>
        \E i \in 1 .. Len(invoked) : invoked[i] = Fallback[1]

\* ------------------------------------------------------ ResearchJob properties
\* C17: error_message is set exactly when the status is Failed.
C17_ErrorMessageIffFailed == (rj.error_message # None) <=> (rj.status = "Failed")

\* C18: a terminal status is never left or changed by a later call, and
\* is_active is the negation of is_terminal for every status.
C18_TerminalAbsorbing ==
  [][/\ is_terminal(rj.status) => rj'.status = rj.status
     /\ \A status \in JobStatus : is_active(status) = ~is_terminal(status)]_vars

\* ------------------------------------------------------ executor properties
\* No two entries of the list have the same URL.
UrlsDistinct(sources) ==
  \A i, k \in 1 .. Len(sources) : i # k => sources[i].url # sources[k].url

\* Every entry is the conversion of the first result seen with its URL.
FromFirstSeen(sources) ==
  \A i \in 1 .. Len(sources) :
    /\ sources[i].url \in DOMAIN ex_first_seen
    /\ sources[i] = into_source(ex_first_seen[sources[i].url].result)

\* C19: all_sources, and so the output of execute, holds at most one source
\* per URL over all queries, and it is built from the first result seen
\* with that URL.
C19_OneSourcePerUrlFirstSeen ==
  /\ UrlsDistinct(ex_all_sources)
  /\ FromFirstSeen(ex_all_sources)
  /\ ex_result.tag = "Ok" =>
       /\ UrlsDistinct(ex_result.sources)
       /\ FromFirstSeen(ex_result.sources)

C19_Witness ==
  /\ ex_pc = "returned"
  /\ ex_result.tag = "Ok"
  /\ ex_plan_len = 2
  /\ \E i \in 1 .. Len(ex_result.sources) : ex_result.sources[i].url \in ex_dup_urls

\* C20: the output of execute is ordered by score, highest first, has at
\* most max_sources entries, all of them survivors of the loops, and no
\* survivor left out scores higher than one that was kept.
C20_SortedAndTruncated ==
  ex_result.tag = "Ok" =>
    LET out == ex_result.sources
        kept == {out[i] : i \in 1 .. Len(out)}
        survived == {ex_survivors[k] : k \in 1 .. Len(ex_survivors)}
    IN /\ \A i \in 1 .. (Len(out) - 1) :
            out[i].relevance_score >= out[i + 1].relevance_score
       /\ Len(out) <= config.max_sources
       /\ Len(out) = IF Len(ex_survivors) < config.max_sources
                       THEN Len(ex_survivors) ELSE config.max_sources
       /\ kept \subseteq survived
       /\ \A s \in survived \ kept : \A t \in kept :
            t.relevance_score >= s.relevance_score

C20_Witness ==
  /\ ex_result.tag = "Ok"
  /\ config.max_sources = 1
  /\ Len(ex_survivors) = 2
  /\ ex_survivors[1].relevance_score < ex_survivors[2].relevance_score
  /\ ex_result.sources = <<ex_survivors[2]>>

\* The first results seen per URL that score at or above min_score.
FirstSeenPassing ==
  {u \in DOMAIN ex_first_seen : ex_first_seen[u].result.score >= config.min_score}

SourceUrls(sources) == {sources[i].url : i \in 1 .. Len(sources)}

\* C21: what the loops keep is exactly the first-seen results that score at
\* or above min_score, so nothing below min_score is ever kept and a result
\* at or above it is missing only as a later duplicate of its URL; the
\* output lacks a kept one only when more than max_sources were kept.
C21_MinScoreFilter ==
  /\ ex_pc \in {"search_wait", "loop"} => SourceUrls(ex_all_sources) = FirstSeenPassing
  /\ ex_result.tag = "Ok" =>
       /\ SourceUrls(ex_survivors) = FirstSeenPassing
       /\ SourceUrls(ex_result.sources) \subseteq FirstSeenPassing
       /\ Len(ex_survivors) <= config.max_sources =>
            SourceUrls(ex_result.sources) = FirstSeenPassing

C21_Witness ==
  /\ ex_result.tag = "Ok"
  /\ config.min_score = 1
  /\ config.max_sources = 2
  /\ DOMAIN ex_first_seen = {"u1", "u2"}
  /\ ex_first_seen["u1"].result.score = 0
  /\ ex_first_seen["u2"].result.score = 1
  /\ SourceUrls(ex_result.sources) = {"u2"}

\* C22: the queries are sent one by one in plan order, each once; after a
\* failed search execute has returned that error with an empty source list
\* and the queries after the failed one were never sent; a successful
\* execute has sent every query of the plan.
C22_OncePerQueryAbortOnError ==
  /\ ex_sent = [i \in 1 .. Len(ex_sent) |-> i]
  /\ Len(ex_sent) <= ex_plan_len
  /\ ex_q = Len(ex_sent)
  /\ ex_result.tag = "Ok" => (Len(ex_sent) = ex_plan_len /\ ex_failed = None)
  /\ ex_failed # None =>
       /\ ex_pc = "returned"
       /\ ex_result = [tag |-> "Err", err |-> ex_failed[1].kind, sources |-> <<>>]
       /\ Len(ex_sent) = ex_failed[1].q
  /\ ex_result.tag = "Err" => ex_failed # None

C22_Witness ==
  /\ ex_plan_len = 3
  /\ ex_failed = Some([q |-> 2, kind |-> "Timeout"])
  /\ ex_sent = <<1, 2>>
  /\ ex_all_sources # <<>>
  /\ ex_result = [tag |-> "Err", err |-> "Timeout", sources |-> <<>>]

\* C38: a URL is marked seen by its first result whatever that result
\* scores, so a URL whose first result scored below min_score is in neither
\* all_sources nor the output, also when a later result with that URL scored
\* at or above min_score.
C38_DedupBeforeFilter ==
  /\ ex_seen_urls = DOMAIN ex_first_seen
  /\ \A u \in DOMAIN ex_first_seen :
       ex_first_seen[u].result.score < config.min_score =>
         /\ u \notin SourceUrls(ex_all_sources)
         /\ u \notin SourceUrls(ex_result.sources)

C38_Witness ==
  /\ ex_pc = "returned"
  /\ ex_result.tag = "Ok"
  /\ \E u \in ex_late_passing :
       /\ ex_first_seen[u].result.score < config.min_score
       /\ u \notin SourceUrls(ex_result.sources)

\* ---------------------------------------------------- synthesizer properties
\* C23: a synthesize call on an empty source list returned an Insufficient
\* answer without citations, not answerable, and left the provider's call
\* count as it was.
C23_EmptySourcesShortCircuit ==
  (sy_pc = "returned" /\ sy_sources = <<>>) =>
    /\ sy_result.tag = "Ok"
    /\ sy_result.answer.confidence = "Insufficient"
    /\ sy_result.answer.citations = <<>>
    /\ ~is_answerable(sy_result.answer)
    /\ sy_call_count = sy_count_before

\* C35: the list handed to the LLM capability has min(n, max_context_sources)
\* elements and its i-th element is the i-th source of the list given to
\* synthesize.
C35_ContextIsPrefix ==
  sy_pc = "returned" =>
    /\ sy_context # None
    /\ LET context == sy_context[1]
           n == Len(sy_sources)
           k == IF n < config.max_context_sources THEN n ELSE config.max_context_sources
       IN /\ Len(context) = k
          /\ \A i \in 1 .. k : context[i] = sy_sources[i]

C35_Witness ==
  /\ sy_pc = "returned"
  /\ config.max_context_sources = 2
  /\ Len(sy_sources) = 3
  /\ sy_sources[1] # sy_sources[3]
  /\ sy_context = Some(<<sy_sources[1], sy_sources[2]>>)

\* ----------------------------------------------------------- parser properties
\* The raw citations of the response text of a citation case.
RawOf(text) == text[2].body.citations

\* C24: every citation of the returned answer names one of the sources passed
\* to the call; the returned citations are the raw citations whose source_id
\* is among those sources, in their order, each with its claim and quote, and
\* the others are dropped without an error.
C24_CitationsResolvedAgainstSources ==
  pr_pc = "returned" /\ Len(pr_text) = 3 /\ pr_text[2].sym = "fields" =>
    LET ids == {pr_sources[i] : i \in 1 .. Len(pr_sources)}
        Known(c) == c.source_id \in ids
    IN /\ pr_result.tag = "Ok"
       /\ \A i \in 1 .. Len(pr_result.citations) : pr_result.citations[i].source_id \in ids
       /\ pr_result.citations = SelectSeq(RawOf(pr_text), Known)

C24_Witness ==
  /\ pr_pc = "returned"
  /\ pr_sources = <<"s2">>
  /\ Len(pr_text) = 3
  /\ RawOf(pr_text) = <<[claim |-> "c1", source_id |-> "s3", quote |-> None],
                        [claim |-> "c2", source_id |-> "s2", quote |-> Some("q1")]>>
  /\ pr_result.citations = <<[claim |-> "c2", source_id |-> "s2", quote |-> Some("q1")]>>

\* C25: the response text built from a well-formed answer object in any of
\* the forms (bare, json fence, bare fence, surrounded by prose) parses to the
\* answer the bare object parses to.
C25_SameAnswerInAllForms ==
  pr_pc = "returned" /\ pr_origin.form \in Forms =>
    /\ pr_result.tag = "Ok"
    /\ pr_result = parse_synthesis_response(pr_origin.object, pr_sources)

\* The text each extraction strategy takes from the trimmed text on its own,
\* if it applies: (a) the whole text, (b) the content of the json fence,
\* (c) the content of the first fence when it starts with a brace, (d) first
\* brace to last brace.
Candidate(strategy, t) ==
  CASE strategy = 1 ->
         IF starts_with_brace(t) /\ ends_with_brace(t) THEN Some(t) ELSE None
    [] strategy = 2 ->
         LET open == {i \in 1 .. Len(t) : t[i].sym = "fence_json"}
             i0 == CHOOSE i \in open : \A k \in open : i <= k
             close == {j \in 1 .. Len(t) : j > i0 /\ t[j].sym \in Fences}
             j0 == CHOOSE j \in close : \A k \in close : j <= k
         IN IF open = {} THEN None
            ELSE IF close = {} THEN None
            ELSE Some(Trim(SubSeq(t, i0 + 1, j0 - 1)))
    [] strategy = 3 ->
         LET open == {i \in 1 .. Len(t) : t[i].sym \in Fences}
             i0 == CHOOSE i \in open : \A k \in open : i <= k
             close == {j \in 1 .. Len(t) : j > i0 /\ t[j].sym \in Fences}
             j0 == CHOOSE j \in close : \A k \in close : j <= k
             inner == Trim(SubSeq(t, i0 + 1, j0 - 1))
         IN IF open = {} THEN None
            ELSE IF close = {} THEN None
            ELSE IF t[i0].sym = "fence" /\ starts_with_brace(inner) THEN Some(inner)
            ELSE None
    [] strategy = 4 ->
         LET open == {i \in 1 .. Len(t) : t[i].sym = "{"}
             close == {j \in 1 .. Len(t) : t[j].sym = "}"}
             i0 == CHOOSE i \in open : \A k \in open : i <= k
             j0 == CHOOSE j \in close : \A k \in close : j >= k
         IN IF open = {} \/ close = {} THEN None
            ELSE IF i0 < j0 THEN Some(SubSeq(t, i0, j0))
            ELSE None

Strategies == 1 .. 4

\* The strategies whose text decodes as an object of the expected shape.
Decodable(t) ==
  {n \in Strategies : Candidate(n, t) # None /\ Decode(Candidate(n, t)[1]).ok}

\* C26: the result comes from the first strategy, in the order (a), (b),
\* (c), (d), whose extracted text decodes: the call succeeds whenever some
\* strategy's text decodes, with the answer decoded from the first such text.
C26_FirstDecodableStrategyWins ==
  pr_pc = "returned" =>
    LET t == Trim(pr_text)
        first == CHOOSE n \in Decodable(t) : \A k \in Decodable(t) : n <= k
    IN IF Decodable(t) = {}
         THEN pr_result.tag # "Ok"
         ELSE /\ pr_result.tag = "Ok"
              /\ pr_result.strings = Decode(Candidate(first, t)[1]).strings
              /\ pr_result.confidence
                   = parse_confidence(Decode(Candidate(first, t)[1]).body.confidence)

\* Whether some extraction strategy applies to the text.
SomeStrategyApplies(text) ==
  LET t == Trim(text)
      n == Len(t)
      IsFence(i) == t[i].sym \in Fences
  IN \/ n >= 1 /\ t[1].sym = "{" /\ t[n].sym = "}"
     \/ \E i, j \in 1 .. n : i < j /\ t[i].sym = "fence_json" /\ IsFence(j)
     \/ \E i, j, m \in 1 .. n :
          /\ i < m /\ m < j
          /\ t[i].sym = "fence" /\ IsFence(j)
          /\ \A k \in 1 .. (j - 1) : k # i => ~IsFence(k)
          /\ t[m].sym = "{"
          /\ \A k \in (i + 1) .. (m - 1) : t[k].sym = "ws"
     \/ \E i, j \in 1 .. n : i < j /\ t[i].sym = "{" /\ t[j].sym = "}"

Spells(string, word) ==
  /\ Len(string) = Len(word)
  /\ \A i \in 1 .. Len(word) : string[i] \in {word[i], ToUpperChar(word[i])}

\* C28: a confidence string that spells high, medium, low or insufficient in
\* any letter case gives that level; every other string gives Medium, and the
\* call does not fail.
C28_ConfidenceCaseInsensitive ==
  pr_pc = "returned" /\ Len(pr_text) = 3 /\ pr_text[2].sym = "fields" =>
    LET string == pr_text[2].body.confidence
    IN /\ pr_result.tag = "Ok"
       /\ pr_result.confidence =
            IF Spells(string, <<"h", "i", "g", "h">>) THEN "High"
            ELSE IF Spells(string, <<"l", "o", "w">>) THEN "Low"
            ELSE IF Spells(string, <<"i", "n", "s", "u", "f", "f", "i", "c", "i", "e", "n", "t">>)
              THEN "Insufficient"
            ELSE "Medium"

C28_Witness ==
  /\ pr_pc = "returned"
  /\ pr_text = BareObject(<<>>, <<"I", "n", "S", "U", "f", "f", "i", "c", "I", "E", "n", "t">>)
  /\ pr_result.tag = "Ok"
  /\ pr_result.confidence = "Insufficient"

\* ------------------------------------------------------------ store properties
\* Two returned calls were in flight together: the later body's call was made
\* before the earlier body ran.
Concurrent(i, j) == i < j /\ st_log[j].inv_at < i

\* C29: a create_job on an id that is stored returns Conflict and leaves the
\* stored jobs as they were; of two create_job calls for one id that are in
\* flight together while the id is not stored, the one whose body runs first
\* succeeds and the other returns Conflict.
C29_CreateConflict ==
  /\ \A i \in 1 .. Len(st_log) :
       st_log[i].op = "create_job" /\ st_log[i].id \in DOMAIN st_log[i].before =>
         /\ st_log[i].err = Some("Conflict")
         /\ st_log[i].after = st_log[i].before
  /\ \A i, j \in 1 .. Len(st_log) :
       /\ Concurrent(i, j)
       /\ st_log[i].op = "create_job" /\ st_log[j].op = "create_job"
       /\ st_log[i].id = st_log[j].id
       /\ st_log[i].id \notin DOMAIN st_log[i].before
       => /\ st_log[i].err = None
          /\ st_log[j].err = Some("Conflict")
          /\ st_log[j].after = st_log[j].before

C29_Witness ==
  /\ Len(st_log) = 2
  /\ Concurrent(1, 2)
  /\ st_log[1].op = "create_job" /\ st_log[2].op = "create_job"
  /\ st_log[1].id = "job_1" /\ st_log[2].id = "job_1"
  /\ st_log[1].job = NewJob /\ st_log[2].job # NewJob
  /\ st_log[1].err = None /\ st_log[2].err = Some("Conflict")
  /\ st_jobs["job_1"] = NewJob

\* C30: an update_job on an id that is not stored returns JobNotFound and the
\* stored jobs are the same before and after the call.
C30_UpdateUnknownNotFound ==
  \A i \in 1 .. Len(st_log) :
    st_log[i].op = "update_job" /\ st_log[i].id \notin DOMAIN st_log[i].before =>
      /\ st_log[i].err = Some("JobNotFound")
      /\ DOMAIN st_log[i].after = DOMAIN st_log[i].before
      /\ st_log[i].after = st_log[i].before

C30_Witness ==
  /\ Len(st_log) = 2
  /\ st_log[1].op = "create_job" /\ st_log[1].id = "job_1" /\ st_log[1].err = None
  /\ st_log[2].op = "update_job" /\ st_log[2].id = "job_2"
  /\ st_log[2].err = Some("JobNotFound")
  /\ DOMAIN st_jobs = {"job_1"}

\* C31: a get_job or get_sources on an id under which nothing is stored
\* returns a not-found error.
C31_LookupUnknownNotFound ==
  \A i \in 1 .. Len(st_log) :
    /\ st_log[i].op \in {"get_job", "get_sources"}
    /\ st_log[i].id \notin DOMAIN st_log[i].before
    /\ st_log[i].id \notin DOMAIN st_log[i].stored
    => st_log[i].err = Some("JobNotFound")

\* ------------------------------------------------------ stage order properties
\* The positions in the trace of run j of the calls of one operation.
At(j, op) == {i \in 1 .. Len(trace[j]) : trace[j][i].op = op}

\* C33: in one run every call of the search capability is followed at once
\* by its return and lies before store_sources; store_sources is called at
\* most once and lies before the call of the LLM capability; the LLM
\* capability is called at most once, is followed at once by its return, and
\* is called only after a search that succeeded and left sources.
C33_StagesSequentialNoRetry ==
  \A j \in JobIds :
    LET t == trace[j] IN
    /\ Cardinality(At(j, "search")) <= 1
    /\ Cardinality(At(j, "store_sources")) <= 1
    /\ Cardinality(At(j, "synthesize")) <= 1
    /\ \A i \in At(j, "search") : i < Len(t) => t[i + 1].op = "search_ret"
    /\ \A i \in At(j, "synthesize") : i < Len(t) => t[i + 1].op = "synthesize_ret"
    /\ \A i \in At(j, "search_ret") : i > 1 /\ t[i - 1].op = "search"
    /\ \A i \in At(j, "synthesize_ret") : i > 1 /\ t[i - 1].op = "synthesize"
    /\ \A i \in At(j, "store_sources") :
         /\ \A k \in At(j, "search") : k < i /\ k + 1 \in At(j, "search_ret") /\ k + 1 < i
         /\ At(j, "search") # {}
    /\ \A i \in At(j, "synthesize") :
         /\ \E k \in At(j, "store_sources") : k < i /\ t[k].ok
         /\ \E k \in At(j, "search_ret") : k < i /\ t[k].ok
         /\ run_sources[j] # <<>>
    /\ (\E k \in At(j, "search_ret") : ~t[k].ok) => At(j, "synthesize") = {}
    /\ (pc[j] \in {"searched", "done"} /\ run_sources[j] = <<>>) => At(j, "synthesize") = {}

C33_Witness ==
  /\ pc["job_1"] = "done"
  /\ run_result["job_1"] = OkResult
  /\ \E a, b, c, d, e \in 1 .. Len(trace["job_1"]) :
       /\ a < b /\ b < c /\ c < d /\ d < e
       /\ trace["job_1"][a].op = "search"
       /\ trace["job_1"][b].op = "search_ret"
       /\ trace["job_1"][c].op = "store_sources"
       /\ trace["job_1"][d].op = "synthesize"
       /\ trace["job_1"][e].op = "synthesize_ret"

\* ------------------------------------------------- concurrent run properties
\* What is stored under an id, if anything.
StoredJob(store_jobs, j) == IF j \in DOMAIN store_jobs THEN Some(store_jobs[j]) ELSE None
StoredSources(store_sources, j) ==
  IF j \in DOMAIN store_sources THEN Some(store_sources[j]) ELSE None

\* The Store calls of run j, as its trace records them, made one after the
\* other on a Store nobody else uses: the maps they leave, and whether each
\* call returned there what it returned to the run.
Alone(j) ==
  LET Step(st, ev) ==
        IF ev.op = "create_job" THEN
          LET res == StoreCreateJob(st.jobs, j, NewJob, "none")
          IN [st EXCEPT !.jobs = res.jobs, !.same = st.same /\ (ev.ok <=> res.err = None)]
        ELSE IF ev.op = "update_job" THEN
          LET nj == IF ev.status = "Failed"
                      THEN fail(st.job, "No sources found for query")
                      ELSE transition_to(st.job, ev.status)
              res == StoreUpdateJob(st.jobs, j, nj, "none")
          IN [st EXCEPT !.job = nj, !.jobs = res.jobs,
                        !.same = st.same /\ (ev.ok <=> res.err = None)]
        ELSE IF ev.op = "store_sources" THEN
          LET res == StoreStoreSources(st.sources, j, run_sources[j], "none")
          IN [st EXCEPT !.sources = res.sources,
                        !.same = st.same /\ (ev.ok <=> res.err = None)]
        ELSE st
      F[i \in 0 .. Len(trace[j])] ==
        IF i = 0
          THEN [job |-> NewJob, jobs |-> [k \in {} |-> NewJob],
                sources |-> [k \in {} |-> <<>>], same |-> TRUE]
          ELSE CHOOSE next \in {Step(st, trace[j][i]) : st \in {F[i - 1]}} : TRUE
  IN F[Len(trace[j])]

\* A step in which run j does not move leaves what is stored under j alone.
OthersUntouched ==
  \A j \in JobIds :
    pc'[j] = pc[j] =>
      /\ StoredJob(jobs', j) = StoredJob(jobs, j)
      /\ StoredSources(stored_sources', j) = StoredSources(stored_sources, j)

\* What is stored under j is what run j alone would have stored so far.
AsAlone ==
  \A j \in JobIds :
    \E alone \in {Alone(j)} :
      /\ alone.same
      /\ StoredJob(jobs, j) = StoredJob(alone.jobs, j)
      /\ StoredSources(stored_sources, j) = StoredSources(alone.sources, j)

\* C32: with the runs of different jobs interleaved at their await points
\* over one Store, a step of one run never changes the job or the sources
\* stored under another id, and after every step, the last one included,
\* each id holds the job and the sources its run alone would have stored.
C32_JobsIndependent == [][OthersUntouched /\ AsAlone']_vars

C32_Witness ==
  /\ pc["job_1"] = "done" /\ pc["job_2"] = "done"
  /\ run_result["job_1"] = OkResult
  /\ run_result["job_2"].tag = "NoSources"
  /\ jobs["job_1"].status = "Completed"
  /\ jobs["job_2"].status = "Failed"
  /\ DOMAIN stored_sources = {"job_1"}
  /\ Len(stored_sources["job_1"]) = 1

\* C39: a run of a job that was never persisted ends at its first update_job
\* with the Store's not-found error: search and LLM capability are not called,
\* and the Store holds neither the job nor a source list for it.
RunWithoutCreate(j) == trace[j] # <<>> /\ trace[j][1].op = "update_job"

C39_UnpersistedRunFailsNotFound ==
  \A j \in JobIds :
    RunWithoutCreate(j) =>
      /\ pc[j] = "done"
      /\ trace[j] = <<Ev("update_job", "Planning", FALSE)>>
      /\ run_result[j] = ErrResult("Store", StoreErrorDisplay("JobNotFound"))
      /\ search_out[j] = None
      /\ llm_context[j] = None
      /\ j \notin DOMAIN jobs
      /\ j \notin DOMAIN stored_sources

C39_Witness ==
  \E j \in JobIds :
    /\ RunWithoutCreate(j)
    /\ run_result[j] = ErrResult("Store", StoreErrorDisplay("JobNotFound"))
    /\ \E k \in JobIds \ {j} : pc[k] = "done" /\ run_result[k] = OkResult

\* ------------------------------------------------- primary resolution properties
\* The provider registered under an optional id, if both exist.
ProviderUnder(key_opt) ==
  IF key_opt # None /\ key_opt[1] \in DOMAIN providers
    THEN Some(providers[key_opt[1]])
    ELSE None

\* C36: the provider invoked first is the one registered under the requested
\* id, or under the default when no id is requested, and any second
\* invocation is the fallback's; when the requested id is not registered, or
\* none is requested and the default resolves to no provider, the call
\* returns ModelUnavailable and no provider is invoked.
C36_PrimaryResolution ==
  reg_pc # "idle" =>
    LET resolved == ProviderUnder(IF call_model # None THEN call_model ELSE default_model)
    IN IF resolved = None
         THEN /\ reg_pc = "returned"
              /\ reg_result = [tag |-> "Err", val |-> "ModelUnavailable", by |-> "-"]
              /\ invoked = <<>>
         ELSE /\ primary = resolved
              /\ Len(invoked) \in {1, 2}
              /\ invoked[1] = resolved[1]
              /\ Len(invoked) = 2 => Some(invoked[2]) = ProviderUnder(fallback_model)

C36_Witness ==
  /\ reg_pc = "returned"
  /\ call_model = Some("m2")
  /\ DOMAIN providers = {"m1"}
  /\ default_model = Some("m1")
  /\ fallback_model = Some("m1")
  /\ reg_result.val = "ModelUnavailable"
  /\ invoked = <<>>

C36_WitnessExplicit ==
  /\ reg_pc = "returned"
  /\ call_model = Some("m2")
  /\ default_model = Some("m1")
  /\ providers = [k \in ModelKeys |-> IF k = "m1" THEN "pA" ELSE "pB"]
  /\ invoked = <<"pB">>
  /\ reg_result.tag = "Ok"

\* ------------------------------------------------- registry set-up properties
\* The set-up calls up to the i-th contain no set_default.
NoOverrideUpTo(i) == \A k \in 1 .. i : reg_log[k].op # "set_default"

\* The positions of the register calls up to the i-th.
RegisteredUpTo(i) == {k \in 1 .. i : reg_log[k].op = "register"}

\* C34: as long as no set_default was called the default is the id of the
\* first register call, whatever is registered or re-registered later; a
\* register changes the default only when there is none, set_fallback never
\* changes it, and set_default sets it to its argument.
C34_FirstRegisteredIsDefault ==
  /\ \A i \in 1 .. Len(reg_log) :
       /\ reg_log[i].before = IF i = 1 THEN None ELSE reg_log[i - 1].after
       /\ reg_log[i].op = "register" /\ reg_log[i].before # None
            => reg_log[i].after = reg_log[i].before
       /\ reg_log[i].op = "set_fallback" => reg_log[i].after = reg_log[i].before
       /\ reg_log[i].op = "set_default" => reg_log[i].after = Some(reg_log[i].key)
       /\ NoOverrideUpTo(i) /\ RegisteredUpTo(i) # {} =>
            LET first == CHOOSE k \in RegisteredUpTo(i) : \A m \in RegisteredUpTo(i) : k <= m
            IN reg_log[i].after = Some(reg_log[first].key)
       /\ NoOverrideUpTo(i) /\ RegisteredUpTo(i) = {} => reg_log[i].after = None
  /\ default_model = IF reg_log = <<>> THEN None ELSE reg_log[Len(reg_log)].after

C34_Witness ==
  /\ Len(reg_log) = 4
  /\ reg_log[1].op = "register" /\ reg_log[1].key = "m1"
  /\ reg_log[2].op = "register" /\ reg_log[2].key = "m2"
  /\ reg_log[3].op = "register" /\ reg_log[3].key = "m2"
  /\ reg_log[4].op = "set_fallback" /\ reg_log[4].key = "m2"
  /\ providers = [k \in ModelKeys |-> IF k = "m1" THEN "pA" ELSE "pB"]
  /\ default_model = Some("m1")
  /\ fallback_model = Some("m2")

\* ------------------------------------------------- search registry properties
\* The position of the first and of the last register call for an id.
FirstCall(id) ==
  CHOOSE i \in 1 .. Len(sr_log) :
    sr_log[i].id = id /\ \A k \in 1 .. (i - 1) : sr_log[k].id # id
LastCall(id) ==
  CHOOSE i \in 1 .. Len(sr_log) :
    sr_log[i].id = id /\ \A k \in (i + 1) .. Len(sr_log) : sr_log[k].id # id

RegisteredIds == {sr_log[i].id : i \in 1 .. Len(sr_log)}

\* C37: the order holds every registered id once, in the order of the first
\* registrations, and is as long as len(); each id maps to the provider it
\* was registered with last; default_provider() is the provider of the first
\* id of the order, None for an empty registry; providers_in_order() is the
\* order's providers.
C37_OrderOfFirstRegistration ==
  /\ {sr_order[i] : i \in 1 .. Len(sr_order)} = RegisteredIds
  /\ DOMAIN sr_providers = RegisteredIds
  /\ \A a, b \in 1 .. Len(sr_order) : a # b => sr_order[a] # sr_order[b]
  /\ \A a, b \in 1 .. Len(sr_order) : a < b => FirstCall(sr_order[a]) < FirstCall(sr_order[b])
  /\ Len(sr_order) = SrLen
  /\ \A id \in RegisteredIds : sr_providers[id] = sr_log[LastCall(id)].provider
  /\ default_provider = IF sr_log = <<>> THEN None ELSE Some(sr_providers[sr_log[1].id])
  /\ Len(providers_in_order) = Len(sr_order)
  /\ \A i \in 1 .. Len(sr_order) : providers_in_order[i] = sr_providers[sr_order[i]]

C37_Witness ==
  /\ Len(sr_log) = 3
  /\ sr_log[1] = [id |-> "tavily", provider |-> "h1"]
  /\ sr_log[2] = [id |-> "exa", provider |-> "h1"]
  /\ sr_log[3] = [id |-> "tavily", provider |-> "h2"]
  /\ sr_order = <<"tavily", "exa">>
  /\ default_provider = Some("h2")
  /\ providers_in_order = <<"h2", "h1">>

\* ------------------------------------------------- vendor error properties
UnavailableStatuses == {"BAD_GATEWAY", "SERVICE_UNAVAILABLE", "GATEWAY_TIMEOUT"}

\* The call has had its primary's answer, and the registry is still the one
\* the call ran on.
PrimaryFailedOverHttp == reg_pc \in {"fallback_wait", "returned"} /\ vendor_resp # NoResponse

\* A fallback is configured, resolves, and reports another model id than the
\* primary.
DistinctFallbackConfigured ==
  LET fb == RegistryLookup(providers, fallback_model)
  IN fb # None /\ ProviderModelId(fb[1]) # ProviderModelId(primary[1])

\* C40: when the primary's vendor answered 502, 503 or 504, the mapped error
\* is retryable, and with a distinct fallback configured the fallback is
\* invoked.
C40_UnavailableStatusIsRetryable ==
  (PrimaryFailedOverHttp /\ vendor_resp.status \in UnavailableStatuses) =>
    /\ LlmIsRetryable(primary_out.val)
    /\ DistinctFallbackConfigured => Len(invoked) = 2

====
